---- MODULE Spec2Model ----
(***************************************************************************)
(* Signal aggregation and composite scoring engine of the dashboard:       *)
(* source adapters, the fetch orchestrator (fetchAllSignals), the          *)
(* composite aggregator (calculateGlobalRisk), the regional filter and the *)
(* polling hook (useDashboard).                                            *)
(*                                                                         *)
(* Numbers.  JavaScript numbers that can be fractional (an adapter's raw   *)
(* score before Math.round) are modelled as exact rationals <<num, den>>   *)
(* with den > 0.  The confidence weights 2 / 1.5 / 1 are carried doubled   *)
(* (4 / 3 / 2); a weighted mean is unchanged by scaling every weight.      *)
(***************************************************************************)
EXTENDS Integers, Sequences, FiniteSets, TLC

VARIABLES
    \* ---- useDashboard (src/src/lib/hooks.ts) ----
    signals,            \* useState<Signal[]>          : published signal list
    globalRisk,         \* useState<GlobalRisk>        : published aggregate
    isLoading,          \* useState<boolean>
    error,              \* useState<string | null>     : <<>> is null
    lastFetched,        \* useState<Date | null>       : <<>> is null
    previousScoreRef,   \* useRef<number | undefined>  : <<>> is undefined
    pollTimer,          \* pollIntervalRef: "unset" | "running" | "cleared"
    inflight,           \* per caller, the fetchData invocations suspended at
                        \* `await fetchAllSignals()`
    \* ---- one call of fetchAllSignals (Promise.allSettled) ----
    settled,            \* per adapter: the state of its promise
    batch,              \* the promise returned by fetchAllSignals
    \* ---- one call of one source adapter ----
    adapterCall,        \* which adapter runs, against which upstream response
    adapterOutcome,     \* what its promise settled to
    errorLog,           \* logger.ts recentErrors, oldest entry first
    \* ---- the logger's clock and record ----
    clock,              \* number of logSignalError calls so far (new Date())
    logHistory,         \* every entry logged since the last clearErrorLog
    \* ---- calls of the pure functions ----
    argSignals,         \* the Signal[] argument
    ret                 \* the last call made on argSignals and its result

vars == <<signals, globalRisk, isLoading, error, lastFetched, previousScoreRef,
          pollTimer, inflight, settled, batch, adapterCall, adapterOutcome,
          errorLog, clock, logHistory, argSignals, ret>>

hookVars == <<signals, globalRisk, isLoading, error, lastFetched,
              previousScoreRef, pollTimer, inflight>>
fetchVars == <<settled, batch>>
adapterVars == <<adapterCall, adapterOutcome, errorLog>>
logVars == <<clock, logHistory>>
aggVars == <<argSignals, ret>>

----------------------------------------------------------------------------
(* Bounds *)

MaxSignals == 3         \* longest Signal[] handed to the pure functions
MaxInflight == 2        \* fetchData invocations suspended at the same time
MaxFailing == 1         \* adapters failing in a cycle that is not a total outage
MaxCount == 8           \* largest count of articles, quakes, alerts, ... in a body
MaxArticles == 4        \* most GDELT articles in a body
MaxToneSum == 13        \* largest absolute sum of the GDELT articles' tones
MaxLogged == 52         \* logSignalError calls per behaviour
MaxMarkets == 2         \* prediction markets that match the keyword filters

----------------------------------------------------------------------------
(* Types (src/src/types/index.ts) *)

Region == {"global", "north-america", "europe", "asia-pacific",
           "middle-east", "africa", "south-america"}

ConfidenceLevel == {"low", "medium", "high"}

SignalStatus == {"normal", "elevated", "high"}

TrendDirection == {"up", "down", "stable"}

\* number | undefined, Signal | null, Date | null: <<>> or <<value>>
None == <<>>
Some(x) == <<x>>

----------------------------------------------------------------------------
(* Arithmetic on rationals <<num, den>>, den > 0 *)

Abs(x) == IF x < 0 THEN -x ELSE x

RECURSIVE GCD(_, _)
GCD(a, b) == IF b = 0 THEN a ELSE GCD(b, a % b)

\* n / d in lowest terms
Rat(n, d) ==
    LET g == GCD(Abs(n), d)
    IN  <<n \div g, d \div g>>
Int2Rat(k) == <<k, 1>>
RatLt(q, r) == q[1] * r[2] < r[1] * q[2]
RatAdd(q, r) == Rat(q[1] * r[2] + r[1] * q[2], q[2] * r[2])
RatSub(q, r) == Rat(q[1] * r[2] - r[1] * q[2], q[2] * r[2])
RatMul(q, r) == Rat(q[1] * r[1], q[2] * r[2])
RatDiv(q, r) ==
    IF r[1] > 0 THEN Rat(q[1] * r[2], q[2] * r[1])
    ELSE Rat(-(q[1] * r[2]), q[2] * (-r[1]))

\* Math.round: the nearest integer, halves towards +Infinity
MathRound(q) == (2 * q[1] + q[2]) \div (2 * q[2])

\* Mutant: a value above the upper limit falls back to the lower limit.
clampResets(value, min, max) ==
    IF RatLt(value, Int2Rat(min)) \/ RatLt(Int2Rat(max), value)
    THEN Int2Rat(min) ELSE value

\* Mutant: the upper limit is not applied (Math.max alone).
clampLowerOnly(value, min, max) ==
    IF RatLt(value, Int2Rat(min)) THEN Int2Rat(min) ELSE value

\* utils.ts clamp: Math.min(Math.max(value, min), max)
clamp(value, min, max) ==
    LET lower == IF RatLt(value, Int2Rat(min)) THEN Int2Rat(min) ELSE value
    IN  IF RatLt(Int2Rat(max), lower) THEN Int2Rat(max) ELSE lower

\* signals.ts scoreToStatus, on the (possibly fractional) number it is given
scoreToStatus(score) ==
    IF RatLt(score, Int2Rat(35)) THEN "normal"
    ELSE IF RatLt(score, Int2Rat(65)) THEN "elevated"
    ELSE "high"

----------------------------------------------------------------------------
(* Composite aggregator, trend tracker and regional filter *)

\* Mutant: the weight follows the source (live sources count double), as in
\* the earlier `signal.isMocked ? 1 : 2`.
confidenceWeightBySource(signal) ==
    IF signal.id \in {"wikipedia-spikes", "safe-haven-flows"} THEN 4 ELSE 2

\* twice the weight of calculateGlobalRisk's loop: high 2, medium 1.5, low 1
confidenceWeight2(signal) ==
    IF signal.confidence = "high" THEN 4
    ELSE IF signal.confidence = "medium" THEN 3
    ELSE 2

\* Mutant: totalWeight counts the signals instead of adding up their weights.
RECURSIVE accumulateCountingSignals(_, _)
accumulateCountingSignals(sigs, acc) ==
    IF sigs = <<>> THEN acc
    ELSE LET signal == Head(sigs)
             weight2 == confidenceWeight2(signal)
         IN  accumulateCountingSignals(Tail(sigs),
                        <<acc[1] + signal.score * weight2, acc[2] + 2>>)

\* the for-loop of calculateGlobalRisk: <<2 * weightedSum, 2 * totalWeight>>
RECURSIVE accumulate(_, _)
accumulate(sigs, acc) ==
    IF sigs = <<>> THEN acc
    ELSE LET signal == Head(sigs)
             weight2 == confidenceWeight2(signal)
         IN  accumulate(Tail(sigs),
                        <<acc[1] + signal.score * weight2, acc[2] + weight2>>)

\* Mutant: no early return for the empty list; the trend of score 0 is taken
\* against the previous score.
calculateGlobalRiskNoEmptyCase(sigs, previousScore) ==
    LET sums == accumulate(sigs, <<0, 0>>)
        score == IF Len(sigs) = 0 THEN 0 ELSE MathRound(Rat(sums[1], sums[2]))
        trend == IF previousScore # None
                 THEN IF score > previousScore[1] + 3 THEN "up"
                      ELSE IF score < previousScore[1] - 3 THEN "down"
                      ELSE "stable"
                 ELSE "stable"
    IN  [score |-> score, trend |-> trend, signalCount |-> Len(sigs)]

\* Mutant: a running mean, rounded after every signal.
RECURSIVE runningMean(_, _)
runningMean(sigs, mean) ==
    IF sigs = <<>> THEN mean
    ELSE runningMean(Tail(sigs), MathRound(Rat(mean + Head(sigs).score, 2)))

calculateGlobalRiskRunningMean(sigs, previousScore) ==
    IF Len(sigs) = 0
    THEN [score |-> 0, trend |-> "stable", signalCount |-> 0]
    ELSE LET score == runningMean(Tail(sigs), Head(sigs).score)
             trend == IF previousScore # None
                      THEN IF score > previousScore[1] + 3 THEN "up"
                           ELSE IF score < previousScore[1] - 3 THEN "down"
                           ELSE "stable"
                      ELSE "stable"
         IN  [score |-> score, trend |-> trend, signalCount |-> Len(sigs)]

\* Mutant: the threshold is inclusive upwards (>= 3 instead of > 3).
calculateGlobalRiskInclusiveUp(sigs, previousScore) ==
    IF Len(sigs) = 0
    THEN [score |-> 0, trend |-> "stable", signalCount |-> 0]
    ELSE LET sums == accumulate(sigs, <<0, 0>>)
             score == MathRound(Rat(sums[1], sums[2]))
             trend == IF previousScore # None
                      THEN IF score >= previousScore[1] + 3 THEN "up"
                           ELSE IF score < previousScore[1] - 3 THEN "down"
                           ELSE "stable"
                      ELSE "stable"
         IN  [score |-> score, trend |-> trend, signalCount |-> Len(sigs)]

calculateGlobalRisk(sigs, previousScore) ==
    IF Len(sigs) = 0
    THEN [score |-> 0, trend |-> "stable", signalCount |-> 0]
    ELSE LET sums == accumulate(sigs, <<0, 0>>)
             score == MathRound(Rat(sums[1], sums[2]))
             trend == IF previousScore # None
                      THEN IF score > previousScore[1] + 3 THEN "up"
                           ELSE IF score < previousScore[1] - 3 THEN "down"
                           ELSE "stable"
                      ELSE "stable"
         IN  [score |-> score, trend |-> trend, signalCount |-> Len(sigs)]

\* Mutant: a global signal is kept only while the list also holds a signal
\* of another region.
filterSignalsByRegionRelative(sigs, region) ==
    IF region = "global" THEN sigs
    ELSE SelectSeq(sigs, LAMBDA s :
             \/ s.region = region
             \/ s.region = "global"
                   /\ \E i \in 1..Len(sigs) : sigs[i].region \notin {region, "global"})

\* Mutant: global signals are not treated as belonging to every region.
filterSignalsByRegionExact(sigs, region) ==
    IF region = "global" THEN sigs
    ELSE SelectSeq(sigs, LAMBDA s : s.region = region)

filterSignalsByRegion(sigs, region) ==
    IF region = "global" THEN sigs
    ELSE SelectSeq(sigs, LAMBDA s : s.region = region \/ s.region = "global")

\* filtered.reduce((acc, s) => acc + s.score, 0)
RECURSIVE sumScores(_)
sumScores(sigs) ==
    IF sigs = <<>> THEN 0 ELSE Head(sigs).score + sumScores(Tail(sigs))

\* Mutant: the regional score is the confidence-weighted mean, as the global
\* score is.
calculateRegionalRiskWeighted(sigs, region) ==
    calculateGlobalRisk(filterSignalsByRegion(sigs, region), None).score

calculateRegionalRisk(sigs, region) ==
    LET filtered == filterSignalsByRegion(sigs, region)
    IN  IF Len(filtered) = 0 THEN 0
        ELSE MathRound(Rat(sumScores(filtered), Len(filtered)))

----------------------------------------------------------------------------
(* Source adapters.                                                        *)
(*                                                                         *)
(* An adapter is run against an upstream response u.  u.kind is what the   *)
(* HTTP exchange did:                                                      *)
(*   "ok"            a 2xx response with a JSON body                       *)
(*   "http_error"    a non-2xx response other than 429                     *)
(*   "rate_limited"  a 429 response                                        *)
(*   "network_error" fetch() rejects                                       *)
(*   "malformed"     a 2xx response whose body does not parse              *)
(*   "missing_field" a 2xx response whose JSON body lacks the field the    *)
(*                   adapter reads its measurements from                   *)
(*   "no_answer"     the endpoint never answers                            *)
(* and the other fields are the measurements the adapter extracts from an  *)
(* "ok" body.  The region an adapter derives from coordinates or country   *)
(* codes is taken as a measurement (u.region).                             *)
(*                                                                         *)
(* The result is what the adapter's promise settles to, and the entries    *)
(* the call handed to logSignalError.                                      *)
(***************************************************************************)

UpstreamKinds == {"ok", "http_error", "rate_limited", "network_error", "malformed",
                  "missing_field", "no_answer"}

\* response.ok and response.json() succeeded
Answered(u) == u.kind \in {"ok", "missing_field"}

\* the measurements extracted from a body: `data.field || default` yields the
\* default when the field is missing
Body(u, defaults) == IF u.kind = "missing_field" THEN defaults ELSE u

Signal(id, region, status, score, confidence) ==
    [id |-> id, region |-> region, status |-> status, score |-> score,
     confidence |-> confidence]

Fulfilled(value, logged) ==
    [status |-> "fulfilled", value |-> value, logged |-> logged]

Rejected == [status |-> "rejected"]

\* a promise that has not settled
Pending == [status |-> "pending"]

LogEntry(signalId, sourceName, errorType) ==
    [signalId |-> signalId, sourceName |-> sourceName, errorType |-> errorType]

\* the object literal every adapter returns on its normal path:
\*   status: scoreToStatus(score), score: Math.round(score)
Reading(id, region, score, confidence) ==
    Signal(id, region, scoreToStatus(score), MathRound(score), confidence)

\* ---- src/src/lib/signals.ts: a failed call yields null, nothing is logged

\* Mutant: no try/catch around the body: `throw new Error('Wikipedia API
\* error')`, a rejected fetch and a failing response.json() reject the
\* adapter's promise.
fetchWikipediaSignalNoCatch(u) ==
    IF Answered(u)
    THEN LET body == Body(u, [crisisArticles |-> 0])
             score == clamp(Int2Rat(body.crisisArticles * 12 + 15), 0, 100)
         IN  Fulfilled(Some(Reading("wikipedia-spikes", "global", score, "medium")),
                       <<>>)
    ELSE Rejected

fetchWikipediaSignal(u) ==
    IF Answered(u)
    THEN LET body == Body(u, [crisisArticles |-> 0])
             score == clamp(Int2Rat(body.crisisArticles * 12 + 15), 0, 100)
         IN  Fulfilled(Some(Reading("wikipedia-spikes", "global", score, "medium")),
                       <<>>)
    ELSE Fulfilled(None, <<>>)

\* `data.rates?.CHF || baseline`: a missing or zero rate is replaced
RateOr(rate, baseline) ==
    IF rate = None \/ rate = Some(Int2Rat(0)) THEN baseline ELSE rate[1]

safeHavenScore(u, chfBaseline, jpyBaseline) ==
    LET chfRate == RateOr(u.chf, chfBaseline)
        jpyRate == RateOr(u.jpy, jpyBaseline)
        chfDeviation == RatMul(RatDiv(RatSub(chfRate, chfBaseline), chfBaseline),
                               Int2Rat(100))
        jpyDeviation == RatMul(RatDiv(RatSub(jpyBaseline, jpyRate), jpyBaseline),
                               Int2Rat(100))
        safeHavenFlow == RatDiv(RatAdd(chfDeviation, jpyDeviation), Int2Rat(2))
    IN  clamp(RatAdd(Int2Rat(45), RatMul(safeHavenFlow, Int2Rat(8))), 0, 100)

fetchSafeHavenSignal(u) ==
    IF Answered(u)
    THEN LET body == Body(u, [chf |-> None, jpy |-> None])
             score == safeHavenScore(body, Rat(88, 100), Int2Rat(150))
         IN  Fulfilled(Some(Reading("safe-haven-flows", "global", score, "high")),
                       <<>>)
    ELSE Fulfilled(None, <<>>)

fetchEarthquakeSignal(u) ==
    IF Answered(u)
    THEN LET body == Body(u, [major |-> 0, significant |-> 0, region |-> "global"])
             score == clamp(Int2Rat(body.major * 25 + body.significant * 5 + 10), 0, 100)
         IN  Fulfilled(Some(Reading("seismic-activity", body.region, score, "high")),
                       <<>>)
    ELSE Fulfilled(None, <<>>)

fetchNaturalEventsSignal(u) ==
    IF Answered(u)
    THEN LET body == Body(u, [wildfires |-> 0, storms |-> 0, volcanoes |-> 0,
                                   region |-> "global"])
             score == clamp(Int2Rat(body.wildfires * 4 + body.storms * 6
                                    + body.volcanoes * 8 + 15), 0, 100)
         IN  Fulfilled(Some(Reading("natural-events", body.region, score, "high")),
                       <<>>)
    ELSE Fulfilled(None, <<>>)

\* the mean of the articles' tones, 0 when there is no article
averageTone(u) ==
    IF u.articles > 0 THEN Rat(u.toneSum, u.articles) ELSE Int2Rat(0)

\* clamp(baseline + (avgTone * -5) + (articles.length / 5), 0, 100)
gdeltScore(u, baselineScore) ==
    clamp(RatAdd(RatAdd(Int2Rat(baselineScore),
                        RatMul(averageTone(u), Int2Rat(-5))),
                 Rat(u.articles, 5)),
          0, 100)

fetchGdeltSignal(u) ==
    IF Answered(u)
    THEN LET body == Body(u, [articles |-> 0, toneSum |-> 0, region |-> "global"])
         IN  Fulfilled(Some(Reading("gdelt-news", body.region,
                                    gdeltScore(body, 50), "medium")),
                       <<>>)
    ELSE Fulfilled(None, <<>>)

\* u.kind answers the raw-signals endpoint; when that response is not ok,
\* u.alertsKind answers the alerts endpoint.
fetchInternetOutageSignal(u) ==
    IF u.kind \in {"http_error", "rate_limited"}
    THEN IF u.alertsKind \in {"ok", "missing_field"}
         THEN LET alerts == IF u.alertsKind = "ok" THEN u.alerts ELSE 0
                  score == clamp(Int2Rat(alerts * 8 + 15), 0, 100)
              IN  Fulfilled(Some(Reading("internet-outages", "global", score,
                                         "medium")), <<>>)
         ELSE Fulfilled(None, <<>>)
    ELSE IF Answered(u)
    THEN LET body == Body(u, [outages |-> 0, maxSeverity |-> 0, region |-> "global"])
             score == clamp(Int2Rat(body.outages * 6 + body.maxSeverity * 10 + 10),
                            0, 100)
         IN  Fulfilled(Some(Reading("internet-outages", body.region, score,
                                    "medium")),
                       <<>>)
    ELSE Fulfilled(None, <<>>)

fetchFlightSignal(u) ==
    IF Answered(u)
    THEN LET body == Body(u, [anomalies |-> 0])
             score == clamp(Int2Rat(body.anomalies * 15 + 20), 0, 100)
         IN  Fulfilled(Some(Reading("flight-anomalies", "north-america", score,
                                    "medium")), <<>>)
    ELSE Fulfilled(None, <<>>)

\* ---- src/unnamed/part_000 (the revision with logging and fallback signals)

\* errorType: error instanceof SyntaxError ? 'parsing' : 'network'
ParsingOrNetwork(u) == IF u.kind = "malformed" THEN "parsing" ELSE "network"

fetchWikipediaSignalP0(u) ==
    IF Answered(u)
    THEN LET body == Body(u, [crisisArticles |-> 0])
             score == clamp(Int2Rat(body.crisisArticles * 12 + 15), 0, 100)
         IN  Fulfilled(Some(Reading("wikipedia-spikes", "global", score, "medium")),
                       <<>>)
    ELSE Fulfilled(None, <<LogEntry("wikipedia-spikes", "Wikimedia API",
                                    ParsingOrNetwork(u))>>)

\* CURRENCY_BASELINES of config.ts: CHF 0.92, JPY 145
fetchSafeHavenSignalP0(u) ==
    IF Answered(u)
    THEN LET body == Body(u, [chf |-> None, jpy |-> None])
             score == safeHavenScore(body, Rat(92, 100), Int2Rat(145))
         IN  Fulfilled(Some(Reading("safe-haven-flows", "global", score, "high")),
                       <<>>)
    ELSE Fulfilled(None, <<LogEntry("safe-haven-flows", "Frankfurter API",
                                    "network")>>)

fetchEarthquakeSignalP0(u) ==
    IF Answered(u)
    THEN LET body == Body(u, [major |-> 0, significant |-> 0, region |-> "global"])
             score == clamp(Int2Rat(body.major * 25 + body.significant * 5 + 10), 0, 100)
         IN  Fulfilled(Some(Reading("seismic-activity", body.region, score, "high")),
                       <<>>)
    ELSE Fulfilled(None, <<LogEntry("seismic-activity", "USGS Earthquake Hazards",
                                    "network")>>)

\* Mutant: the fallback literal carries the id of the earthquake adapter.
fetchNaturalEventsSignalP0OtherId(u) ==
    IF Answered(u)
    THEN LET body == Body(u, [wildfires |-> 0, storms |-> 0, volcanoes |-> 0,
                                   region |-> "global"])
             score == clamp(Int2Rat(body.wildfires * 4 + body.storms * 6
                                    + body.volcanoes * 8 + 15), 0, 100)
         IN  Fulfilled(Some(Reading("natural-events", body.region, score, "high")),
                       <<>>)
    ELSE Fulfilled(Some(Signal("seismic-activity", "global", "normal", 25, "low")),
                   <<LogEntry("natural-events", "NASA EONET", "network")>>)

fetchNaturalEventsSignalP0(u) ==
    IF Answered(u)
    THEN LET body == Body(u, [wildfires |-> 0, storms |-> 0, volcanoes |-> 0,
                                   region |-> "global"])
             score == clamp(Int2Rat(body.wildfires * 4 + body.storms * 6
                                    + body.volcanoes * 8 + 15), 0, 100)
         IN  Fulfilled(Some(Reading("natural-events", body.region, score, "high")),
                       <<>>)
    ELSE Fulfilled(Some(Signal("natural-events", "global", "normal", 25, "low")),
                   <<LogEntry("natural-events", "NASA EONET", "network")>>)

fetchGdeltSignalP0(u) ==
    IF Answered(u)
    THEN LET body == Body(u, [articles |-> 0, toneSum |-> 0, region |-> "global"])
             confidence == IF body.articles = 0 THEN "low"
                           ELSE IF body.articles >= 10 THEN "high"
                           ELSE IF body.articles >= 5 THEN "medium"
                           ELSE "low"
             baselineScore == IF body.articles = 0 THEN 40 ELSE 50
         IN  Fulfilled(Some(Reading("gdelt-news", body.region,
                                    gdeltScore(body, baselineScore), confidence)),
                       <<>>)
    ELSE Fulfilled(Some(Signal("gdelt-news", "global", "normal", 35, "low")),
                   <<LogEntry("gdelt-news", "GDELT Project", ParsingOrNetwork(u))>>)

fetchInternetOutageSignalP0(u) ==
    IF u.kind \in {"http_error", "rate_limited"}
    THEN Fulfilled(Some(Signal("internet-outages", "global", "normal", 25, "low")),
                   <<>>)
    ELSE IF Answered(u)
    THEN LET body == Body(u, [criticalAlerts |-> 0, warningAlerts |-> 0,
                                   totalAlerts |-> 0])
             score == clamp(Int2Rat(body.criticalAlerts * 20 + body.warningAlerts * 8
                                    + body.totalAlerts * 2 + 15), 0, 100)
         IN  Fulfilled(Some(Reading("internet-outages", "global", score,
                                    IF body.totalAlerts > 0 THEN "medium" ELSE "low")),
                       <<>>)
    ELSE Fulfilled(Some(Signal("internet-outages", "global", "normal", 25, "low")),
                   <<LogEntry("internet-outages", "Cloudflare Radar", "network")>>)

fetchFlightSignalP0(u) ==
    IF u.kind = "rate_limited"
    THEN Fulfilled(Some(Signal("flight-anomalies", "global", "normal", 22, "low")),
                   <<>>)
    ELSE IF Answered(u)
    THEN LET body == Body(u, [anomalies |-> 0, region |-> "global"])
             score == clamp(Int2Rat(body.anomalies * 15 + 20), 0, 100)
         IN  Fulfilled(Some(Reading("flight-anomalies", body.region, score, "medium")),
                       <<>>)
    ELSE Fulfilled(Some(Signal("flight-anomalies", "global", "normal", 22, "low")),
                   <<LogEntry("flight-anomalies", "OpenSky Network", "network")>>)

\* ---- src/src/lib/signals-phase1.ts: every failure, a missing field
\* included, is thrown into the catch block: logged as 'network', then null

\* `meta?.regularMarketPrice || meta?.previousClose`, then `if (!value) throw`
fetchVIXSignal(u) ==
    IF u.kind = "ok"
    THEN LET score == clamp(RatMul(RatDiv(u.vixLevel, Int2Rat(40)), Int2Rat(100)),
                            0, 100)
         IN  Fulfilled(Some(Reading("vix-fear-index", "global", score, "high")),
                       <<>>)
    ELSE Fulfilled(None, <<LogEntry("vix-fear-index", "Yahoo Finance VIX",
                                    "network")>>)

\* without FRED_API_KEY the 10Y yield alone, with it the 10Y-2Y spread
fetchCreditSpreadSignal(u) ==
    IF u.kind = "ok"
    THEN IF ~u.fredKey
         THEN LET score == clamp(RatMul(RatDiv(u.yield10y, Int2Rat(6)),
                                        Int2Rat(100)), 0, 100)
              IN  Fulfilled(Some(Reading("credit-spreads", "global", score,
                                         "medium")), <<>>)
         ELSE LET spread == RatSub(u.yield10y, u.yield2y)
                  score == clamp(RatSub(Int2Rat(50), RatMul(spread, Int2Rat(30))),
                                 0, 100)
              IN  Fulfilled(Some(Reading("credit-spreads", "global", score,
                                         "high")), <<>>)
    ELSE Fulfilled(None, <<LogEntry("credit-spreads", "FRED/Yahoo Finance",
                                    "network")>>)

fetchOilPriceSignal(u) ==
    IF u.kind = "ok"
    THEN LET baseline == Int2Rat(72)
             priceDeviation == RatMul(RatDiv(RatSub(u.currentPrice, baseline),
                                             baseline), Int2Rat(100))
             score == clamp(RatAdd(Int2Rat(45), RatMul(priceDeviation, Rat(6, 10))),
                            0, 100)
         IN  Fulfilled(Some(Reading("oil-prices", "global", score, "high")), <<>>)
    ELSE Fulfilled(None, <<LogEntry("oil-prices", "Yahoo Finance Oil", "network")>>)

\* baseline + level term + momentum term of the gold and dollar adapters
levelAndMomentumScore(current, prev, base, baseline, levelFactor, momentumFactor) ==
    LET change == RatMul(RatDiv(RatSub(current, prev), prev), Int2Rat(100))
        levelScore == RatMul(RatDiv(RatSub(current, Int2Rat(baseline)),
                                    Int2Rat(baseline)), Int2Rat(levelFactor))
        momentumScore == RatMul(change, Int2Rat(momentumFactor))
    IN  clamp(RatAdd(RatAdd(Int2Rat(base), levelScore), momentumScore), 0, 100)

fetchGoldPriceSignal(u) ==
    IF u.kind = "ok"
    THEN LET score == levelAndMomentumScore(u.currentPrice, u.prevPrice,
                                            40, 2000, 30, 3)
         IN  Fulfilled(Some(Reading("gold-safe-haven", "global", score, "high")),
                       <<>>)
    ELSE Fulfilled(None, <<LogEntry("gold-safe-haven", "Yahoo Finance Gold",
                                    "network")>>)

fetchDollarIndexSignal(u) ==
    IF u.kind = "ok"
    THEN LET score == levelAndMomentumScore(u.currentPrice, u.prevPrice,
                                            35, 100, 40, 5)
         IN  Fulfilled(Some(Reading("dollar-index", "global", score, "high")),
                       <<>>)
    ELSE Fulfilled(None, <<LogEntry("dollar-index", "Yahoo Finance DXY",
                                    "network")>>)

\* ---- src/unnamed/part_002: prediction markets; a failed call is logged
\* and yields a fallback signal

\* Math.log10 on the volumes of the modelled markets
log10(v) == CASE v = 100 -> 2 [] v = 1000 -> 3 [] v = 1000000 -> 6

\* the loop over crisisMarkets: a market whose outcomePrices do not parse is
\* skipped (catch { continue; })
RECURSIVE polymarketSums(_)
polymarketSums(markets) ==
    IF markets = <<>> THEN [totalWeight |-> 0, weightedProbSum |-> Int2Rat(0)]
    ELSE LET rest == polymarketSums(Tail(markets))
             market == Head(markets)
             weight == log10(IF market.volume > 100 THEN market.volume ELSE 100)
         IN  IF market.parses
             THEN [totalWeight |-> rest.totalWeight + weight,
                   weightedProbSum |->
                      RatAdd(rest.weightedProbSum,
                             RatMul(market.yesProb, Int2Rat(weight)))]
             ELSE rest

fetchPolymarketSignal(u) ==
    IF u.kind = "ok"
    THEN IF Len(u.crisisMarkets) = 0
         THEN Fulfilled(Some(Signal("polymarket-crisis", "global", "normal", 25,
                                    "low")), <<>>)
         ELSE LET sums == polymarketSums(u.crisisMarkets)
                  avgCrisisProb ==
                      IF sums.totalWeight > 0
                      THEN RatDiv(sums.weightedProbSum, Int2Rat(sums.totalWeight))
                      ELSE Int2Rat(0)
                  score == clamp(RatAdd(Int2Rat(25),
                                        RatMul(avgCrisisProb, Int2Rat(90))),
                                 0, 100)
                  confidence == IF Len(u.crisisMarkets) >= 3 THEN "high"
                                ELSE "medium"
              IN  Fulfilled(Some(Reading("polymarket-crisis", "global", score,
                                         confidence)), <<>>)
    ELSE Fulfilled(Some(Signal("polymarket-crisis", "global", "normal", 30, "low")),
                   <<LogEntry("polymarket-crisis", "Polymarket", "network")>>)

\* yesProb > 0.3 && yesProb < 0.7, yesProb being yes_bid / 100
kalshiVolatile(market) == market.yes_bid > 30 /\ market.yes_bid < 70

fetchKalshiSignal(u) ==
    IF Answered(u)
    THEN LET body == Body(u, [relevantMarkets |-> <<>>])
             relevant == body.relevantMarkets
         IN  IF Len(relevant) = 0
             THEN Fulfilled(Some(Signal("kalshi-political-risk", "north-america",
                                        "normal", 25, "low")), <<>>)
             ELSE LET volatileCount ==
                          Len(SelectSeq(relevant, kalshiVolatile))
                      highStakesCount ==
                          Len(SelectSeq(relevant, LAMBDA m : m.volume > 10000))
                      volatilityRatio ==
                          Rat(volatileCount,
                              IF Len(relevant) > 1 THEN Len(relevant) ELSE 1)
                      score == clamp(RatAdd(RatAdd(Int2Rat(30),
                                                   RatMul(volatilityRatio,
                                                          Int2Rat(40))),
                                            Int2Rat(highStakesCount * 3)),
                                     0, 100)
                      confidence == IF Len(relevant) >= 5 THEN "high"
                                    ELSE "medium"
                  IN  Fulfilled(Some(Reading("kalshi-political-risk",
                                             "north-america", score, confidence)),
                                <<>>)
    ELSE Fulfilled(Some(Signal("kalshi-political-risk", "north-america", "normal",
                               25, "low")),
                   <<LogEntry("kalshi-political-risk", "Kalshi", "network")>>)

\* the adapters of part_002, which no fetchAllSignals registers
AdaptersPhaseTwo == << "fetchPolymarketSignal", "fetchKalshiSignal" >>

\* the adapters fetchAllSignals of signals.ts registers, in its order
Adapters ==
    << "fetchWikipediaSignal", "fetchSafeHavenSignal", "fetchEarthquakeSignal",
       "fetchNaturalEventsSignal", "fetchGdeltSignal",
       "fetchInternetOutageSignal", "fetchFlightSignal" >>

AdapterNames == { Adapters[i] : i \in 1..Len(Adapters) }

\* the adapters fetchAllSignals of the later revision registers
AdaptersP0 ==
    Adapters \o << "fetchVIXSignal", "fetchCreditSpreadSignal",
                   "fetchOilPriceSignal", "fetchGoldPriceSignal",
                   "fetchDollarIndexSignal" >>

Revisions == {"signals.ts", "part_000"}

Registered(revision) ==
    IF revision = "signals.ts" THEN Adapters ELSE AdaptersP0

\* the adapter aborts its fetch after 8 s (AbortController); the abort
\* rejects the fetch into the adapter's catch block
HasTimeout(revision, adapter) ==
    revision = "part_000" /\ adapter = "fetchNaturalEventsSignal"

\* an awaited fetch of the call never settles
AwaitsForever(revision, adapter, u) ==
    /\ ~HasTimeout(revision, adapter)
    /\ \/ u.kind = "no_answer"
       \/ /\ revision = "signals.ts"
          /\ adapter = "fetchInternetOutageSignal"
          /\ u.kind \in {"http_error", "rate_limited"}
          /\ u.alertsKind = "no_answer"

RunAdapterOn(revision, adapter, u) ==
    IF AwaitsForever(revision, adapter, u) THEN Pending
    ELSE IF revision = "signals.ts"
    THEN CASE adapter = "fetchWikipediaSignal" -> fetchWikipediaSignal(u)
           [] adapter = "fetchSafeHavenSignal" -> fetchSafeHavenSignal(u)
           [] adapter = "fetchEarthquakeSignal" -> fetchEarthquakeSignal(u)
           [] adapter = "fetchNaturalEventsSignal" -> fetchNaturalEventsSignal(u)
           [] adapter = "fetchGdeltSignal" -> fetchGdeltSignal(u)
           [] adapter = "fetchInternetOutageSignal" -> fetchInternetOutageSignal(u)
           [] adapter = "fetchFlightSignal" -> fetchFlightSignal(u)
    ELSE CASE adapter = "fetchWikipediaSignal" -> fetchWikipediaSignalP0(u)
           [] adapter = "fetchSafeHavenSignal" -> fetchSafeHavenSignalP0(u)
           [] adapter = "fetchEarthquakeSignal" -> fetchEarthquakeSignalP0(u)
           [] adapter = "fetchNaturalEventsSignal" -> fetchNaturalEventsSignalP0(u)
           [] adapter = "fetchGdeltSignal" -> fetchGdeltSignalP0(u)
           [] adapter = "fetchInternetOutageSignal" -> fetchInternetOutageSignalP0(u)
           [] adapter = "fetchFlightSignal" -> fetchFlightSignalP0(u)
           [] adapter = "fetchVIXSignal" -> fetchVIXSignal(u)
           [] adapter = "fetchCreditSpreadSignal" -> fetchCreditSpreadSignal(u)
           [] adapter = "fetchOilPriceSignal" -> fetchOilPriceSignal(u)
           [] adapter = "fetchGoldPriceSignal" -> fetchGoldPriceSignal(u)
           [] adapter = "fetchDollarIndexSignal" -> fetchDollarIndexSignal(u)
           [] adapter = "fetchPolymarketSignal" -> fetchPolymarketSignal(u)
           [] adapter = "fetchKalshiSignal" -> fetchKalshiSignal(u)

\* the `id` of the signals an adapter emits and the `signalId` it logs under
SignalIdOf ==
    [fetchWikipediaSignal |-> "wikipedia-spikes",
     fetchSafeHavenSignal |-> "safe-haven-flows",
     fetchEarthquakeSignal |-> "seismic-activity",
     fetchNaturalEventsSignal |-> "natural-events",
     fetchGdeltSignal |-> "gdelt-news",
     fetchInternetOutageSignal |-> "internet-outages",
     fetchFlightSignal |-> "flight-anomalies",
     fetchVIXSignal |-> "vix-fear-index",
     fetchCreditSpreadSignal |-> "credit-spreads",
     fetchOilPriceSignal |-> "oil-prices",
     fetchGoldPriceSignal |-> "gold-safe-haven",
     fetchDollarIndexSignal |-> "dollar-index",
     fetchPolymarketSignal |-> "polymarket-crisis",
     fetchKalshiSignal |-> "kalshi-political-risk"]

\* logger.ts MAX: `if (recentErrors.length > 50) recentErrors.shift()`
MaxErrors == 50

\* Mutant: the newest entry is dropped when the log is full (pop for shift).
logSignalErrorPop(log, entry) ==
    LET pushed == Append(log, entry)
    IN  IF Len(pushed) > MaxErrors THEN SubSeq(pushed, 1, Len(pushed) - 1)
        ELSE pushed

\* logger.ts logSignalError on the recentErrors array
logSignalError(log, entry) ==
    LET pushed == Append(log, entry)
    IN  IF Len(pushed) > MaxErrors THEN Tail(pushed) ELSE pushed

RECURSIVE logAll(_, _)
logAll(log, entries) ==
    IF entries = <<>> THEN log
    ELSE logAll(logSignalError(log, Head(entries)), Tail(entries))

\* logger.ts clearErrorLog: recentErrors.length = 0
clearErrorLog(log) == <<>>

\* Mutant: the array itself is returned, not a copy.
getRecentErrorsNoCopy(log) == [items |-> log, sharesLog |-> TRUE]

\* logger.ts getRecentErrors: `[...recentErrors]`, a new array with the same
\* elements in the same order
getRecentErrors(log) == [items |-> log, sharesLog |-> FALSE]

\* logger.ts getErrorCount
getErrorCount(log, signalId) ==
    Len(SelectSeq(log, LAMBDA e : e.signalId = signalId))

\* logger.ts getSourceErrorCount
getSourceErrorCount(log, sourceName) ==
    Len(SelectSeq(log, LAMBDA e : e.sourceName = sourceName))

----------------------------------------------------------------------------
(* Idle values: what a group of variables holds in a specification that    *)
(* does not exercise it                                                    *)

NoCall == [op |-> "none"]
\* who calls fetchData: the effect on mount, the interval, refresh()
Callers == {"effect", "interval", "refresh"}
NoneInflight == [caller \in Callers |-> 0]

HookIdle ==
    /\ signals = <<>>
    /\ globalRisk = [score |-> 0, trend |-> "stable", signalCount |-> 0]
    /\ isLoading = TRUE
    /\ error = None
    /\ lastFetched = None
    /\ previousScoreRef = None
    /\ pollTimer = "unset"
    /\ inflight = NoneInflight

FetchIdle ==
    /\ settled = <<>>
    /\ batch = Pending

AdapterIdle ==
    /\ adapterCall = NoCall
    /\ adapterOutcome = Pending
    /\ errorLog = <<>>

AggIdle ==
    /\ argSignals = <<>>
    /\ ret = NoCall

LogIdle ==
    /\ clock = 0
    /\ logHistory = <<>>

----------------------------------------------------------------------------
(* One call of one adapter against one upstream response *)

\* the exchange fails: fetch rejects, the status is not 2xx, the body does
\* not parse
FailureKinds == {"http_error", "rate_limited", "network_error", "malformed"}

Failures == { [kind |-> k] : k \in FailureKinds }

\* a body without the expected field, and an endpoint that never answers
Incomplete == { [kind |-> "missing_field"], [kind |-> "no_answer"] }

Counts == 0..MaxCount
SmallCounts == 0..2
RegionSamples == {"global", "asia-pacific"}

\* CHF and JPY per USD: absent, zero, the two baselines and rates around them
ChfRates == {None, Some(Int2Rat(0)), Some(Rat(88, 100)), Some(Rat(92, 100)),
             Some(Rat(90, 100))}
JpyRates == {None, Some(Int2Rat(150)), Some(Int2Rat(145)), Some(Rat(1539, 10)),
             Some(Rat(1388, 10)), Some(Int2Rat(120))}

\* market readings around the adapters' baselines
VixLevels == {Int2Rat(12), Rat(139, 10), Int2Rat(26), Int2Rat(45)}
Yields == {Rat(21, 10), Int2Rat(4), Rat(45, 10)}
OilPrices == {Int2Rat(48), Int2Rat(72), Int2Rat(90)}
GoldPrices == {Int2Rat(1700), Int2Rat(2000), Int2Rat(2100), Int2Rat(2400)}
DollarLevels == {Int2Rat(100), Int2Rat(105)}

\* crisis markets: outcomePrices that do not parse, or a yes price and a
\* volume
PolymarketMarkets ==
    { [parses |-> FALSE, yesProb |-> Int2Rat(0), volume |-> 1000] }
    \cup { [parses |-> TRUE, yesProb |-> y, volume |-> v] :
             y \in {Int2Rat(0), Rat(1, 2), Rat(9, 10)}, v \in {0, 1000} }

\* relevant markets: a yes bid in cents and a volume
KalshiMarkets ==
    { [yes_bid |-> b, volume |-> v] : b \in {0, 50, 99}, v \in {0, 20000} }

Upstream(revision, adapter) ==
    CASE adapter = "fetchWikipediaSignal" ->
           { [kind |-> "ok", crisisArticles |-> n] : n \in Counts } \cup Failures \cup Incomplete
      [] adapter = "fetchSafeHavenSignal" ->
           { [kind |-> "ok", chf |-> c, jpy |-> j] : c \in ChfRates, j \in JpyRates }
           \cup Failures \cup Incomplete
      [] adapter = "fetchEarthquakeSignal" ->
           { [kind |-> "ok", major |-> m, significant |-> g, region |-> r] :
               m \in SmallCounts, g \in Counts, r \in RegionSamples }
           \cup Failures \cup Incomplete
      [] adapter = "fetchNaturalEventsSignal" ->
           { [kind |-> "ok", wildfires |-> w, storms |-> t, volcanoes |-> v,
              region |-> r] :
               w \in Counts, t \in SmallCounts, v \in SmallCounts,
               r \in RegionSamples }
           \cup Failures \cup Incomplete
      [] adapter = "fetchGdeltSignal" ->
           { [kind |-> "ok", articles |-> n, toneSum |-> t, region |-> r] :
               n \in 1..MaxArticles, t \in (-MaxToneSum)..MaxToneSum,
               r \in RegionSamples }
           \cup { [kind |-> "ok", articles |-> 0, toneSum |-> 0, region |-> "global"] }
           \cup Failures \cup Incomplete
      [] adapter = "fetchInternetOutageSignal" /\ revision = "signals.ts" ->
           { [kind |-> "ok", outages |-> n, maxSeverity |-> v, region |-> r] :
               n \in 1..MaxCount, v \in 1..3, r \in RegionSamples }
           \cup { [kind |-> "ok", outages |-> 0, maxSeverity |-> 0,
                   region |-> "global"] }
           \cup { [kind |-> k, alertsKind |-> "ok", alerts |-> n] :
                    k \in {"http_error", "rate_limited"}, n \in Counts }
           \cup { [kind |-> k, alertsKind |-> a] :
                    k \in {"http_error", "rate_limited"},
                    a \in FailureKinds \cup {"missing_field", "no_answer"} }
           \cup { [kind |-> k] : k \in {"network_error", "malformed"} }
           \cup Incomplete
      [] adapter = "fetchInternetOutageSignal" /\ revision = "part_000" ->
           { [kind |-> "ok", criticalAlerts |-> c, warningAlerts |-> w,
              totalAlerts |-> c + w + o] :
               c \in SmallCounts, w \in SmallCounts, o \in SmallCounts }
           \cup Failures \cup Incomplete
      [] adapter = "fetchFlightSignal" ->
           { [kind |-> "ok", anomalies |-> n, region |-> r] :
               n \in Counts, r \in RegionSamples }
           \cup Failures \cup Incomplete
      [] adapter = "fetchVIXSignal" ->
           { [kind |-> "ok", vixLevel |-> v] : v \in VixLevels }
           \cup Failures \cup Incomplete
      [] adapter = "fetchCreditSpreadSignal" ->
           { [kind |-> "ok", fredKey |-> FALSE, yield10y |-> y] : y \in Yields }
           \cup { [kind |-> "ok", fredKey |-> TRUE, yield10y |-> y, yield2y |-> z] :
                    y \in Yields, z \in Yields }
           \cup Failures \cup Incomplete
      [] adapter = "fetchOilPriceSignal" ->
           { [kind |-> "ok", currentPrice |-> c] : c \in OilPrices }
           \cup Failures \cup Incomplete
      [] adapter = "fetchGoldPriceSignal" ->
           { [kind |-> "ok", currentPrice |-> c, prevPrice |-> q] :
               c \in GoldPrices, q \in GoldPrices }
           \cup Failures \cup Incomplete
      [] adapter = "fetchDollarIndexSignal" ->
           { [kind |-> "ok", currentPrice |-> c, prevPrice |-> q] :
               c \in DollarLevels, q \in DollarLevels }
           \cup Failures \cup Incomplete
      [] adapter = "fetchPolymarketSignal" ->
           { [kind |-> "ok", crisisMarkets |-> m] :
               m \in UNION { [1..n -> PolymarketMarkets] : n \in 0..MaxMarkets } }
           \cup Failures \cup Incomplete
      [] adapter = "fetchKalshiSignal" ->
           { [kind |-> "ok", relevantMarkets |-> m] :
               m \in UNION { [1..n -> KalshiMarkets] : n \in 0..MaxMarkets } }
           \cup Failures \cup Incomplete

CallsOf(revision) ==
    UNION { { [op |-> Registered(revision)[i], revision |-> revision,
               upstream |-> u] :
                u \in Upstream(revision, Registered(revision)[i]) } :
            i \in 1..Len(Registered(revision)) }

\* calls of the adapters of part_002
PhaseTwoCalls ==
    UNION { { [op |-> AdaptersPhaseTwo[i], revision |-> "part_002",
               upstream |-> u] :
                u \in Upstream("part_002", AdaptersPhaseTwo[i]) } :
            i \in 1..Len(AdaptersPhaseTwo) }

AdapterCalls ==
    UNION { CallsOf(revision) : revision \in Revisions } \cup PhaseTwoCalls

InitAdapter ==
    /\ HookIdle
    /\ FetchIdle
    /\ AggIdle
    /\ adapterCall \in AdapterCalls
    /\ adapterOutcome = Pending
    /\ errorLog = <<>>
    /\ LogIdle

\* the adapter runs to completion: its promise settles and what it logged is
\* in the error log
RunAdapter ==
    /\ adapterOutcome = Pending
    /\ LET outcome == RunAdapterOn(adapterCall.revision, adapterCall.op,
                                   adapterCall.upstream)
       IN  /\ adapterOutcome' = outcome
           /\ errorLog' = IF outcome.status = "fulfilled"
                          THEN logAll(errorLog, outcome.logged)
                          ELSE errorLog
    /\ UNCHANGED <<adapterCall, hookVars, fetchVars, aggVars, logVars>>

NextAdapter == RunAdapter

SpecAdapter == InitAdapter /\ [][NextAdapter]_vars

----------------------------------------------------------------------------
(* Fetch orchestrator: one call of fetchAllSignals.  The adapter promises  *)
(* settle one by one in any order; the call resumes once all have.         *)

\* Mutant: a fail-fast join (Promise.all, as in the first revision of
\* fetchAllSignals): one rejection rejects the batch.
fetchAllSignalsFailFast(results) ==
    IF \E i \in 1..Len(results) : results[i].status = "rejected"
    THEN Rejected
    ELSE LET values == [i \in 1..Len(results) |-> results[i].value]
             present == SelectSeq(values, LAMBDA v : v # None)
         IN  [status |-> "fulfilled",
              value |-> [k \in 1..Len(present) |-> present[k][1]]]

\* Mutant: the signals are collected in front of the list (unshift for
\* push), the last registered adapter first.
fetchAllSignalsReversed(results) ==
    LET fulfilled == SelectSeq(results, LAMBDA r : r.status = "fulfilled")
        values == [k \in 1..Len(fulfilled) |-> fulfilled[k].value]
        present == SelectSeq(values, LAMBDA v : v # None)
    IN  [status |-> "fulfilled",
         value |-> [k \in 1..Len(present) |->
                      present[Len(present) + 1 - k][1]]]

\* what fetchAllSignals does with the results of Promise.allSettled
fetchAllSignals(results) ==
    LET fulfilled == SelectSeq(results, LAMBDA r : r.status = "fulfilled")
        values == [k \in 1..Len(fulfilled) |-> fulfilled[k].value]
        present == SelectSeq(values, LAMBDA v : v # None)
    IN  [status |-> "fulfilled",
         value |-> [k \in 1..Len(present) |-> present[k][1]]]

\* the upstream responses of a polling cycle: per adapter one good response
\* and one failure
CycleUpstream(adapter) ==
    CASE adapter = "fetchWikipediaSignal" ->
           { [kind |-> "ok", crisisArticles |-> 2], [kind |-> "network_error"] }
      [] adapter = "fetchSafeHavenSignal" ->
           { [kind |-> "ok", chf |-> None, jpy |-> Some(Int2Rat(150))],
             [kind |-> "http_error"] }
      [] adapter = "fetchEarthquakeSignal" ->
           { [kind |-> "ok", major |-> 1, significant |-> 3,
              region |-> "asia-pacific"],
             [kind |-> "network_error"] }
      [] adapter = "fetchNaturalEventsSignal" ->
           { [kind |-> "ok", wildfires |-> 5, storms |-> 1, volcanoes |-> 0,
              region |-> "global"],
             [kind |-> "malformed"] }
      [] adapter = "fetchGdeltSignal" ->
           { [kind |-> "ok", articles |-> 4, toneSum |-> -8, region |-> "europe"],
             [kind |-> "rate_limited"] }
      [] adapter = "fetchInternetOutageSignal" ->
           { [kind |-> "ok", outages |-> 2, maxSeverity |-> 2, region |-> "global"],
             [kind |-> "http_error", alertsKind |-> "network_error"] }
      [] adapter = "fetchFlightSignal" ->
           { [kind |-> "ok", anomalies |-> 4, region |-> "north-america"],
             [kind |-> "network_error"] }

InitFetch ==
    /\ HookIdle
    /\ AdapterIdle
    /\ AggIdle
    /\ settled = [i \in 1..Len(Adapters) |-> Pending]
    /\ batch = Pending
    /\ LogIdle

AdapterSettles(i) ==
    /\ settled[i] = Pending
    /\ \E u \in CycleUpstream(Adapters[i]) :
          LET outcome == RunAdapterOn("signals.ts", Adapters[i], u)
          IN  /\ settled' = [settled EXCEPT ![i] = outcome]
              /\ errorLog' = logAll(errorLog, outcome.logged)
    /\ UNCHANGED <<batch, adapterCall, adapterOutcome, hookVars, aggVars, logVars>>

\* a promise in the list handed to Promise.allSettled rejects
AdapterRejects(i) ==
    /\ settled[i] = Pending
    /\ settled' = [settled EXCEPT ![i] = Rejected]
    /\ UNCHANGED <<batch, adapterVars, hookVars, aggVars, logVars>>

\* `await Promise.allSettled([...])` resumes and the function returns
FetchAllSignalsReturns ==
    /\ batch = Pending
    /\ \A i \in 1..Len(Adapters) : settled[i] # Pending
    /\ batch' = fetchAllSignals(settled)
    /\ UNCHANGED <<settled, adapterVars, hookVars, aggVars, logVars>>

NextFetch ==
    \/ \E i \in 1..Len(Adapters) : AdapterSettles(i)
    \/ \E i \in 1..Len(Adapters) : AdapterRejects(i)
    \/ FetchAllSignalsReturns

SpecFetch == InitFetch /\ [][NextFetch]_vars

----------------------------------------------------------------------------
(* A polling cycle in which an endpoint may never answer.  adapterCall     *)
(* holds the cycle: the revision of fetchAllSignals that runs and the      *)
(* adapters whose endpoint stays silent.  The event loop runs every        *)
(* continuation that is ready and fires every timer that is due, one at a  *)
(* time, for as long as there is one; nothing else makes a promise settle. *)

\* the response of a phase-1 endpoint that answers in the cycle
PhaseOneUpstream(adapter) ==
    CASE adapter = "fetchVIXSignal" -> [kind |-> "ok", vixLevel |-> Int2Rat(26)]
      [] adapter = "fetchCreditSpreadSignal" ->
           [kind |-> "ok", fredKey |-> FALSE, yield10y |-> Int2Rat(4)]
      [] adapter = "fetchOilPriceSignal" ->
           [kind |-> "ok", currentPrice |-> Int2Rat(90)]
      [] adapter = "fetchGoldPriceSignal" ->
           [kind |-> "ok", currentPrice |-> Int2Rat(2100),
            prevPrice |-> Int2Rat(2000)]
      [] adapter = "fetchDollarIndexSignal" ->
           [kind |-> "ok", currentPrice |-> Int2Rat(105),
            prevPrice |-> Int2Rat(100)]

\* what the endpoint of an adapter does in the cycle
CycleResponse(cycle, adapter) ==
    IF adapter \in cycle.silent THEN [kind |-> "no_answer"]
    ELSE IF cycle.revision = "part_000" /\ adapter = "fetchInternetOutageSignal"
    THEN [kind |-> "ok", criticalAlerts |-> 1, warningAlerts |-> 1,
          totalAlerts |-> 3]
    ELSE IF adapter \in AdapterNames
    THEN CHOOSE u \in CycleUpstream(adapter) : u.kind = "ok"
    ELSE PhaseOneUpstream(adapter)

\* no endpoint is silent, or one is
Cycles ==
    UNION { { [op |-> "fetchAllSignals", revision |-> revision, silent |-> {}] }
            \cup { [op |-> "fetchAllSignals", revision |-> revision,
                    silent |-> {Registered(revision)[i]}] :
                      i \in 1..Len(Registered(revision)) } :
            revision \in Revisions }

\* the promises of the cycles: what each adapter's promise settles to, or
\* Pending where it never settles
CyclePromises ==
    UNION { { [cycle |-> cycle, adapter |-> Registered(cycle.revision)[i],
               outcome |-> RunAdapterOn(cycle.revision,
                               Registered(cycle.revision)[i],
                               CycleResponse(cycle,
                                             Registered(cycle.revision)[i]))] :
                i \in 1..Len(Registered(cycle.revision)) } :
            cycle \in Cycles }

PromiseOf(cycle, adapter) ==
    (CHOOSE p \in CyclePromises : p.cycle = cycle /\ p.adapter = adapter).outcome

\* Mutant: a circuit breaker, an adapter whose signal id is in the error
\* log is skipped.
adapterReturnsUnlessLogged(log, adapter, outcome) ==
    IF getErrorCount(log, SignalIdOf[adapter]) > 0
    THEN [promise |-> Fulfilled(None, <<>>), log |-> log]
    ELSE [promise |-> outcome, log |-> logAll(log, outcome.logged)]

\* the end of an adapter's body: the catch block calls logSignalError, then
\* the adapter returns
adapterReturns(log, adapter, outcome) ==
    [promise |-> outcome, log |-> logAll(log, outcome.logged)]

InitLive ==
    /\ HookIdle
    /\ AggIdle
    /\ LogIdle
    /\ adapterCall \in Cycles
    /\ adapterOutcome = Pending
    /\ errorLog = <<>>
    /\ settled = [i \in 1..Len(Registered(adapterCall.revision)) |-> Pending]
    /\ batch = Pending

\* the promise of adapter i settles: its fetch was answered, or its timer
\* aborted the fetch, and the rest of the adapter ran
AdapterPromiseSettles(i) ==
    /\ i \in 1..Len(settled)
    /\ settled[i] = Pending
    /\ LET adapter == Registered(adapterCall.revision)[i]
           outcome == PromiseOf(adapterCall, adapter)
       IN  /\ outcome # Pending
           /\ settled' = [settled EXCEPT ![i] =
                             adapterReturns(errorLog, adapter, outcome).promise]
           /\ errorLog' = adapterReturns(errorLog, adapter, outcome).log
    /\ UNCHANGED <<batch, adapterCall, adapterOutcome, hookVars, aggVars, logVars>>

\* `await Promise.allSettled([...])` resumes once every promise has settled
AllSettledResumes ==
    /\ batch = Pending
    /\ \A i \in 1..Len(settled) : settled[i] # Pending
    /\ batch' = fetchAllSignals(settled)
    /\ UNCHANGED <<settled, adapterVars, hookVars, aggVars, logVars>>

NextLive ==
    \/ \E i \in 1..Len(AdaptersP0) : AdapterPromiseSettles(i)
    \/ AllSettledResumes

SpecLive ==
    /\ InitLive
    /\ [][NextLive]_vars
    /\ WF_vars(NextLive)

----------------------------------------------------------------------------
(* useDashboard.  A fetchData invocation runs up to `await                 *)
(* fetchAllSignals()` when it is started and is suspended there; when the  *)
(* batch arrives the rest of fetchData runs in one piece (JavaScript runs  *)
(* a continuation to completion, and React commits the state updates made  *)
(* in it together).  After the cleanup the component is unmounted: React   *)
(* drops its state updates, the ref is still written.                      *)

\* the response adapter i meets in a cycle: its good one or its failure
CycleChoice(i, good) ==
    CHOOSE u \in CycleUpstream(Adapters[i]) : (u.kind = "ok") = good

\* the adapters that fail in a cycle: a few of them, or all (the client is
\* offline)
FailingSets ==
    { down \in SUBSET (1..Len(Adapters)) : Cardinality(down) <= MaxFailing }
    \cup { 1..Len(Adapters) }

\* the settled promises fetchAllSignals can see: every adapter has answered
CycleResults ==
    { [i \in 1..Len(Adapters) |->
          RunAdapterOn("signals.ts", Adapters[i], CycleChoice(i, i \notin down))] :
      down \in FailingSets }

\* what `await fetchAllSignals()` can resolve to
CycleBatches == { fetchAllSignals(results) : results \in CycleResults }

Mounted == pollTimer = "running"

\* Mutant: the risk is computed from the `signals` the callback closed over
\* (the initial empty list) instead of the new batch.
fetchDataStaleSignals(newSignals, previousScore) ==
    LET newGlobalRisk == calculateGlobalRisk(<<>>, previousScore)
    IN  [signals |-> newSignals, globalRisk |-> newGlobalRisk,
         previousScoreRef |-> Some(newGlobalRisk.score)]

\* Mutant: previousScoreRef.current is never written.
fetchDataKeepsRef(newSignals, previousScore) ==
    LET newGlobalRisk == calculateGlobalRisk(newSignals, previousScore)
    IN  [signals |-> newSignals, globalRisk |-> newGlobalRisk,
         previousScoreRef |-> previousScore]

\* the try block of fetchData after the await: what it publishes and carries
fetchDataTry(newSignals, previousScore) ==
    LET newGlobalRisk == calculateGlobalRisk(newSignals, previousScore)
    IN  [signals |-> newSignals, globalRisk |-> newGlobalRisk,
         previousScoreRef |-> Some(newGlobalRisk.score)]

Init ==
    /\ signals = <<>>
    /\ globalRisk = [score |-> 0, trend |-> "stable", signalCount |-> 0]
    /\ isLoading = TRUE
    /\ error = None
    /\ lastFetched = None
    /\ previousScoreRef = None
    /\ pollTimer = "unset"
    /\ inflight = NoneInflight
    /\ FetchIdle
    /\ AdapterIdle
    /\ AggIdle
    /\ LogIdle

InflightCount ==
    inflight["effect"] + inflight["interval"] + inflight["refresh"]

\* fetchData up to its await
StartFetchData(caller) ==
    /\ InflightCount < MaxInflight
    /\ inflight' = [inflight EXCEPT ![caller] = @ + 1]

\* the polling effect: the initial fetch, then setInterval(fetchData, 60000)
Mount ==
    /\ pollTimer = "unset"
    /\ StartFetchData("effect")
    /\ pollTimer' = "running"
    /\ UNCHANGED <<signals, globalRisk, isLoading, error, lastFetched,
                   previousScoreRef, fetchVars, adapterVars, aggVars, logVars>>

\* the interval fires
TimerPoll ==
    /\ pollTimer = "running"
    /\ StartFetchData("interval")
    /\ UNCHANGED <<signals, globalRisk, isLoading, error, lastFetched,
                   previousScoreRef, pollTimer, fetchVars, adapterVars, aggVars, logVars>>

\* refresh(): setIsLoading(true), then fetchData
Refresh ==
    /\ Mounted
    /\ StartFetchData("refresh")
    /\ isLoading' = TRUE
    /\ UNCHANGED <<signals, globalRisk, error, lastFetched, previousScoreRef,
                   pollTimer, fetchVars, adapterVars, aggVars, logVars>>

\* Mutant: setIsLoading(false) ends the try block instead of standing in a
\* finally block, so the catch path leaves the loading flag as it was.
FetchDataResumesNoFinally(caller, outcome) ==
    /\ inflight[caller] > 0
    /\ inflight' = [inflight EXCEPT ![caller] = @ - 1]
    /\ IF outcome.status = "fulfilled"
       THEN LET done == fetchDataTry(outcome.value, previousScoreRef)
            IN  /\ previousScoreRef' = done.previousScoreRef
                /\ IF Mounted
                   THEN /\ signals' = done.signals
                        /\ globalRisk' = done.globalRisk
                        /\ lastFetched' = Some("Date")
                        /\ error' = None
                        /\ isLoading' = FALSE
                   ELSE UNCHANGED <<signals, globalRisk, lastFetched, error,
                                    isLoading, logVars>>
       ELSE /\ error' = IF Mounted
                        THEN Some("Failed to fetch signals. Check your connection.")
                        ELSE error
            /\ UNCHANGED <<isLoading, signals, globalRisk, lastFetched,
                           previousScoreRef, logVars>>
    /\ UNCHANGED <<pollTimer, fetchVars, adapterVars, aggVars, logVars>>

\* Mutant: the catch block also empties the published list (setSignals([])).
FetchDataResumesClearsOnError(caller, outcome) ==
    /\ inflight[caller] > 0
    /\ inflight' = [inflight EXCEPT ![caller] = @ - 1]
    /\ IF outcome.status = "fulfilled"
       THEN LET done == fetchDataTry(outcome.value, previousScoreRef)
            IN  /\ previousScoreRef' = done.previousScoreRef
                /\ IF Mounted
                   THEN /\ signals' = done.signals
                        /\ globalRisk' = done.globalRisk
                        /\ lastFetched' = Some("Date")
                        /\ error' = None
                        /\ isLoading' = FALSE
                   ELSE UNCHANGED <<signals, globalRisk, lastFetched, error,
                                    isLoading, logVars>>
       ELSE /\ error' = IF Mounted
                        THEN Some("Failed to fetch signals. Check your connection.")
                        ELSE error
            /\ isLoading' = IF Mounted THEN FALSE ELSE isLoading
            /\ signals' = IF Mounted THEN <<>> ELSE signals
            /\ UNCHANGED <<globalRisk, lastFetched, previousScoreRef, logVars>>
    /\ UNCHANGED <<pollTimer, fetchVars, adapterVars, aggVars, logVars>>

\* the awaited fetchAllSignals of an invocation started by `caller` settles
\* with `outcome`, and fetchData runs to its end: try, or catch, then finally
FetchDataResumes(caller, outcome) ==
    /\ inflight[caller] > 0
    /\ inflight' = [inflight EXCEPT ![caller] = @ - 1]
    /\ IF outcome.status = "fulfilled"
       THEN LET done == fetchDataTry(outcome.value, previousScoreRef)
            IN  /\ previousScoreRef' = done.previousScoreRef
                /\ IF Mounted
                   THEN /\ signals' = done.signals
                        /\ globalRisk' = done.globalRisk
                        /\ lastFetched' = Some("Date")
                        /\ error' = None
                        /\ isLoading' = FALSE
                   ELSE UNCHANGED <<signals, globalRisk, lastFetched, error,
                                    isLoading, logVars>>
       ELSE /\ error' = IF Mounted
                        THEN Some("Failed to fetch signals. Check your connection.")
                        ELSE error
            /\ isLoading' = IF Mounted THEN FALSE ELSE isLoading
            /\ UNCHANGED <<signals, globalRisk, lastFetched, previousScoreRef, logVars>>
    /\ UNCHANGED <<pollTimer, fetchVars, adapterVars, aggVars, logVars>>

\* the effect's cleanup: clearInterval
Unmount ==
    /\ pollTimer = "running"
    /\ pollTimer' = "cleared"
    /\ UNCHANGED <<signals, globalRisk, isLoading, error, lastFetched,
                   previousScoreRef, inflight, fetchVars, adapterVars, aggVars, logVars>>

Next ==
    \/ Mount
    \/ TimerPoll
    \/ Refresh
    \/ \E caller \in Callers, outcome \in CycleBatches \cup {Rejected} :
          FetchDataResumes(caller, outcome)
    \/ Unmount

Spec == Init /\ [][Next]_vars

\* the awaited promise of an invocation started by `caller` settles and the
\* event loop runs the continuation of fetchData
FetchDataSettles(caller) ==
    \E outcome \in CycleBatches \cup {Rejected} : FetchDataResumes(caller, outcome)

\* The hook when every cycle's adapters settle: an invocation suspended at its
\* await is resumed.
SpecSettling ==
    Init /\ [][Next]_vars /\ \A caller \in Callers : WF_vars(FetchDataSettles(caller))

----------------------------------------------------------------------------
(* The error log: calls of logSignalError, clearErrorLog and the queries.  *)
(* The array a query returned stays with its caller until the next call    *)
(* that writes the log.                                                    *)

\* the adapters that log, with the sourceName and errorType they log under
LogProducers ==
    << LogEntry("gdelt-news", "GDELT Project", "parsing"),
       LogEntry("flight-anomalies", "OpenSky Network", "network"),
       LogEntry("vix-fear-index", "Yahoo Finance VIX", "network") >>

\* the SignalFetchError of the t-th call: the producers take turns, the
\* timestamp is the time of the call
EntryAt(t) ==
    LET producer == LogProducers[(t % Len(LogProducers)) + 1]
    IN  [signalId |-> producer.signalId, sourceName |-> producer.sourceName,
         errorType |-> producer.errorType, timestamp |-> t]

LoggedIds == { LogProducers[i].signalId : i \in 1..Len(LogProducers) }
LoggedSources == { LogProducers[i].sourceName : i \in 1..Len(LogProducers) }

InitLog ==
    /\ HookIdle
    /\ FetchIdle
    /\ adapterCall = NoCall
    /\ adapterOutcome = Pending
    /\ errorLog = <<>>
    /\ clock = 0
    /\ logHistory = <<>>
    /\ AggIdle

LogSignalError ==
    /\ clock < MaxLogged
    /\ clock' = clock + 1
    /\ errorLog' = logSignalError(errorLog, EntryAt(clock + 1))
    /\ logHistory' = Append(logHistory, EntryAt(clock + 1))
    /\ ret' = NoCall
    /\ UNCHANGED <<argSignals, adapterCall, adapterOutcome, hookVars, fetchVars>>

ClearErrorLog ==
    /\ errorLog' = clearErrorLog(errorLog)
    /\ logHistory' = <<>>
    /\ ret' = NoCall
    /\ UNCHANGED <<clock, argSignals, adapterCall, adapterOutcome, hookVars,
                   fetchVars>>

GetRecentErrors ==
    /\ ret' = [op |-> "getRecentErrors", mutated |-> FALSE,
               items |-> getRecentErrors(errorLog).items,
               sharesLog |-> getRecentErrors(errorLog).sharesLog]
    /\ UNCHANGED <<errorLog, logVars, argSignals, adapterCall, adapterOutcome,
                   hookVars, fetchVars>>

\* the caller of getRecentErrors removes the first element of the array it
\* was given (errors.shift())
CallerMutatesResult ==
    /\ ret.op = "getRecentErrors"
    /\ ~ret.mutated
    /\ ret.items # <<>>
    /\ ret' = [ret EXCEPT !.items = Tail(@), !.mutated = TRUE]
    /\ errorLog' = IF ret.sharesLog THEN Tail(errorLog) ELSE errorLog
    /\ UNCHANGED <<logVars, argSignals, adapterCall, adapterOutcome, hookVars,
                   fetchVars>>

GetErrorCount ==
    /\ \E signalId \in LoggedIds \cup {"natural-events"} :
          ret' = [op |-> "getErrorCount", signalId |-> signalId,
                  value |-> getErrorCount(errorLog, signalId)]
    /\ UNCHANGED <<errorLog, logVars, argSignals, adapterCall, adapterOutcome,
                   hookVars, fetchVars>>

GetSourceErrorCount ==
    /\ \E sourceName \in LoggedSources \cup {"NASA EONET"} :
          ret' = [op |-> "getSourceErrorCount", sourceName |-> sourceName,
                  value |-> getSourceErrorCount(errorLog, sourceName)]
    /\ UNCHANGED <<errorLog, logVars, argSignals, adapterCall, adapterOutcome,
                   hookVars, fetchVars>>

NextLog ==
    \/ LogSignalError
    \/ ClearErrorLog
    \/ GetRecentErrors
    \/ CallerMutatesResult
    \/ GetErrorCount
    \/ GetSourceErrorCount

SpecLog == InitLog /\ [][NextLog]_vars

----------------------------------------------------------------------------
(* A polling cycle that starts with the entries earlier cycles logged *)

\* what earlier cycles left in the error log: one entry, or a full log
StartLogs ==
    { <<LogProducers[1]>>,
      [t \in 1..MaxErrors |-> LogProducers[(t % Len(LogProducers)) + 1]] }

\* a polling cycle that starts with entries in the error log
InitLogged ==
    /\ HookIdle
    /\ AggIdle
    /\ LogIdle
    /\ adapterCall \in Cycles
    /\ adapterOutcome = Pending
    /\ errorLog \in StartLogs
    /\ settled = [i \in 1..Len(Registered(adapterCall.revision)) |-> Pending]
    /\ batch = Pending

SpecLogged == InitLogged /\ [][NextLive]_vars

----------------------------------------------------------------------------
(* The components that rank the signals.  Array.prototype.sort sorts the   *)
(* array it is called on, in place and stably, and returns that array; a   *)
(* component is modelled by the array it was given as it is after the      *)
(* call, and by what it renders.                                           *)

\* the array with x inserted before the first element that has to come
\* after x (compare(x, e) < 0); rank[e] is the sort key of e
RECURSIVE insertSorted(_, _, _)
insertSorted(sorted, x, rank) ==
    IF sorted = <<>> THEN <<x>>
    ELSE IF rank[x] - rank[Head(sorted)] < 0 THEN <<x>> \o sorted
    ELSE <<Head(sorted)>> \o insertSorted(Tail(sorted), x, rank)

\* Array.prototype.sort with the comparator (a, b) => rank[a] - rank[b]
RECURSIVE arraySort(_, _)
arraySort(array, rank) ==
    IF array = <<>> THEN <<>>
    ELSE insertSorted(arraySort(SubSeq(array, 1, Len(array) - 1), rank),
                      array[Len(array)], rank)

Elements(array) == { array[i] : i \in 1..Len(array) }

\* SignalFeed.tsx: const order = { high: 0, elevated: 1, normal: 2 }
statusOrder == [high |-> 0, elevated |-> 1, normal |-> 2]

\* (a, b) => (order[a.status] ?? 3) - (order[b.status] ?? 3)
byStatus(array) == [s \in Elements(array) |-> statusOrder[s.status]]

\* Mutant: `signals.sort(...)`, without the spread copy.
SignalFeedSortsProp(sigs, loading) ==
    IF loading THEN [signals |-> sigs, view |-> "LoadingSkeleton", cards |-> <<>>]
    ELSE IF Len(sigs) = 0
    THEN [signals |-> sigs, view |-> "empty", cards |-> <<>>]
    ELSE LET sorted == arraySort(sigs, byStatus(sigs))
         IN  [signals |-> sorted, view |-> "cards", cards |-> sorted]

\* SignalFeed.tsx SignalFeed
SignalFeed(sigs, loading) ==
    IF loading THEN [signals |-> sigs, view |-> "LoadingSkeleton", cards |-> <<>>]
    ELSE IF Len(sigs) = 0
    THEN [signals |-> sigs, view |-> "empty", cards |-> <<>>]
    ELSE LET copy == sigs
             sorted == arraySort(copy, byStatus(copy))
         IN  [signals |-> sigs, view |-> "cards", cards |-> sorted]

\* TopDrivers.tsx: { ...s, deviation: Math.abs(s.score - 50) }, a new object
withDeviation(s) ==
    [id |-> s.id, region |-> s.region, score |-> s.score, status |-> s.status,
     confidence |-> s.confidence, deviation |-> Abs(s.score - 50)]

\* (a, b) => b.deviation - a.deviation
byDeviation(array) == [s \in Elements(array) |-> -s.deviation]

\* TopDrivers.tsx TopDrivers: the three signals furthest from 50
TopDrivers(sigs) ==
    LET copy == sigs
        mapped == [i \in 1..Len(copy) |-> withDeviation(copy[i])]
        sorted == arraySort(mapped, byDeviation(mapped))
        drivers == SubSeq(sorted, 1, IF Len(sorted) < 3 THEN Len(sorted) ELSE 3)
    IN  [signals |-> sigs, drivers |-> drivers]

----------------------------------------------------------------------------
(* Calls of the pure functions on signal lists drawn from a pool; each      *)
(* behaviour is one call                                                   *)

Sig(id, region, score, confidence) ==
    [id |-> id, region |-> region, score |-> score,
     status |-> scoreToStatus(Int2Rat(score)), confidence |-> confidence]

\* Readings around the trend threshold of a previous score of 50, the two
\* ends of the scale, the three confidence levels and four regions.
SignalPool ==
    { Sig("safe-haven-flows", "global", 80, "high"),
      Sig("gdelt-news", "europe", 20, "low"),
      Sig("wikipedia-spikes", "global", 53, "medium"),
      Sig("internet-outages", "asia-pacific", 54, "medium"),
      Sig("seismic-activity", "asia-pacific", 47, "high"),
      Sig("natural-events", "europe", 46, "high"),
      Sig("flight-anomalies", "north-america", 0, "low"),
      Sig("seismic-activity", "europe", 100, "high") }

PreviousScores == {None, Some(50), Some(100)}

SignalLists == UNION { [1..n -> SignalPool] : n \in 0..MaxSignals }

IndexPermutations(n) ==
    { p \in [1..n -> 1..n] : \A i, j \in 1..n : p[i] = p[j] => i = j }

Permute(sigs, p) == [i \in 1..Len(sigs) |-> sigs[p[i]]]

InitAgg ==
    /\ HookIdle
    /\ FetchIdle
    /\ AdapterIdle
    /\ argSignals \in SignalLists
    /\ ret = NoCall
    /\ LogIdle

CallCalculateGlobalRisk ==
    /\ ret = NoCall
    /\ \E previousScore \in PreviousScores :
          ret' = [op |-> "calculateGlobalRisk", previousScore |-> previousScore,
                  value |-> calculateGlobalRisk(argSignals, previousScore)]
    /\ UNCHANGED <<argSignals, hookVars, fetchVars, adapterVars, logVars>>

\* the same call on the same signals arriving in another order
CallCalculateGlobalRiskPermuted ==
    /\ ret = NoCall
    /\ \E previousScore \in PreviousScores :
          \E p \in IndexPermutations(Len(argSignals)) :
             ret' = [op |-> "calculateGlobalRiskPermuted", perm |-> p,
                     previousScore |-> previousScore,
                     value |-> calculateGlobalRisk(Permute(argSignals, p),
                                                   previousScore)]
    /\ UNCHANGED <<argSignals, hookVars, fetchVars, adapterVars, logVars>>

CallFilterSignalsByRegion ==
    /\ ret = NoCall
    /\ \E region \in Region :
          ret' = [op |-> "filterSignalsByRegion", region |-> region,
                  value |-> filterSignalsByRegion(argSignals, region)]
    /\ UNCHANGED <<argSignals, hookVars, fetchVars, adapterVars, logVars>>

CallCalculateRegionalRisk ==
    /\ ret = NoCall
    /\ \E region \in Region :
          ret' = [op |-> "calculateRegionalRisk", region |-> region,
                  value |-> calculateRegionalRisk(argSignals, region)]
    /\ UNCHANGED <<argSignals, hookVars, fetchVars, adapterVars, logVars>>

\* two calls with the same arguments, and a call on the first call's result
CallFilterSignalsByRegionAgain ==
    /\ ret = NoCall
    /\ \E region \in Region :
          LET first == filterSignalsByRegion(argSignals, region)
          IN  ret' = [op |-> "filterSignalsByRegionAgain", region |-> region,
                      first |-> first,
                      second |-> filterSignalsByRegion(argSignals, region),
                      refiltered |-> filterSignalsByRegion(first, region)]
    /\ UNCHANGED <<argSignals, hookVars, fetchVars, adapterVars, logVars>>

\* the feed is rendered with the cycle's signals
RenderSignalFeed ==
    /\ ret = NoCall
    /\ \E loading \in BOOLEAN :
          LET rendered == SignalFeed(argSignals, loading)
          IN  /\ argSignals' = rendered.signals
              /\ ret' = [op |-> "SignalFeed", loading |-> loading,
                         view |-> rendered.view, cards |-> rendered.cards]
    /\ UNCHANGED <<hookVars, fetchVars, adapterVars, logVars>>

RenderTopDrivers ==
    /\ ret = NoCall
    /\ LET rendered == TopDrivers(argSignals)
       IN  /\ argSignals' = rendered.signals
           /\ ret' = [op |-> "TopDrivers", drivers |-> rendered.drivers]
    /\ UNCHANGED <<hookVars, fetchVars, adapterVars, logVars>>

NextAgg ==
    \/ RenderSignalFeed
    \/ RenderTopDrivers
    \/ CallCalculateGlobalRisk
    \/ CallCalculateGlobalRiskPermuted
    \/ CallFilterSignalsByRegion
    \/ CallCalculateRegionalRisk
    \/ CallFilterSignalsByRegionAgain

SpecAgg == InitAgg /\ [][NextAgg]_vars

----------------------------------------------------------------------------
(* Properties of the pure functions, checked under SpecAgg *)

RECURSIVE SumSeq(_)
SumSeq(xs) == IF xs = <<>> THEN 0 ELSE Head(xs) + SumSeq(Tail(xs))

\* the weights the specification states, doubled: high 2, medium 1.5, low 1
StatedWeight2 == [high |-> 4, medium |-> 3, low |-> 2]

\* n = round(num / den): n - 1/2 <= num / den < n + 1/2
IsRoundOf(n, num, den) ==
    /\ 2 * n * den - den <= 2 * num
    /\ 2 * num < 2 * n * den + den

CalledCalculateGlobalRisk == ret.op = "calculateGlobalRisk"

C5_EmptyIsZeroStable ==
    (CalledCalculateGlobalRisk /\ argSignals = <<>>) =>
        ret.value = [score |-> 0, trend |-> "stable", signalCount |-> 0]

C5_Witness ==
    /\ CalledCalculateGlobalRisk
    /\ argSignals = <<>>
    /\ ret.previousScore = Some(50)
    /\ ret.value.trend = "stable"

\* C6: for signals with scores in 0..100 the composite score is an integer
\* in 0..100.
C6_ScoreInRange ==
    ( /\ ret.op \in {"calculateGlobalRisk", "calculateGlobalRiskPermuted"}
      /\ \A i \in 1..Len(argSignals) : argSignals[i].score \in 0..100 )
    => ret.value.score \in 0..100

C6_Witness ==
    /\ CalledCalculateGlobalRisk
    /\ Len(argSignals) >= 2
    /\ \E i \in 1..Len(argSignals) : argSignals[i].confidence # "low"
    /\ ret.value.score = 100

\* C7: calculateGlobalRisk is order-independent: on every permutation of the
\* signal list, with the same previous score, it returns the same score,
\* trend and signalCount.
C7_OrderIndependent ==
    ret.op = "calculateGlobalRiskPermuted" =>
        LET original == calculateGlobalRisk(argSignals, ret.previousScore)
        IN  /\ ret.value.score = original.score
            /\ ret.value.trend = original.trend
            /\ ret.value.signalCount = original.signalCount

C7_Witness ==
    /\ ret.op = "calculateGlobalRiskPermuted"
    /\ Len(argSignals) = 3
    /\ Permute(argSignals, ret.perm) # argSignals
    /\ \A i, j \in 1..3 : i # j => argSignals[i].score # argSignals[j].score
    /\ argSignals[1].confidence # argSignals[2].confidence
    /\ ret.previousScore # None

\* C8: for a non-empty list and a defined previous score, trend is up iff
\* score > previous + 3, down iff score < previous - 3, stable otherwise;
\* with previous 50: 53 stable, 54 up, 47 stable, 46 down.
C8_TrendThreshold ==
    (CalledCalculateGlobalRisk /\ argSignals # <<>> /\ ret.previousScore # None) =>
        LET previous == ret.previousScore[1]
            score == ret.value.score
            trend == ret.value.trend
        IN  /\ trend = "up" <=> score > previous + 3
            /\ trend = "down" <=> score < previous - 3
            /\ trend = "stable" <=> (score <= previous + 3 /\ score >= previous - 3)
            /\ (previous = 50 /\ score = 53) => trend = "stable"
            /\ (previous = 50 /\ score = 54) => trend = "up"
            /\ (previous = 50 /\ score = 47) => trend = "stable"
            /\ (previous = 50 /\ score = 46) => trend = "down"

C8_Witness ==
    /\ CalledCalculateGlobalRisk
    /\ ret.previousScore = Some(50)
    /\ ret.value.score = 53
    /\ ret.value.trend = "stable"
    /\ Len(argSignals) = 1

\* C10: filterSignalsByRegion returns all signals for region global, and
\* otherwise exactly the signals whose region is the requested one or global,
\* in their original order.
C10_RegionalFilter ==
    ret.op = "filterSignalsByRegion" =>
        LET keep == IF ret.region = "global"
                    THEN 1..Len(argSignals)
                    ELSE { i \in 1..Len(argSignals) :
                             argSignals[i].region \in {ret.region, "global"} }
            \* the k-th kept index, counting from the front
            kth(k) == CHOOSE i \in keep : Cardinality({j \in keep : j <= i}) = k
        IN  /\ Len(ret.value) = Cardinality(keep)
            /\ \A k \in 1..Len(ret.value) : ret.value[k] = argSignals[kth(k)]
            /\ ret.region = "global" => ret.value = argSignals

C10_Witness ==
    /\ ret.op = "filterSignalsByRegion"
    /\ ret.region = "europe"
    /\ argSignals = << Sig("internet-outages", "asia-pacific", 54, "medium"),
                       Sig("gdelt-news", "europe", 20, "low"),
                       Sig("safe-haven-flows", "global", 80, "high") >>
    /\ ret.value = << Sig("gdelt-news", "europe", 20, "low"),
                      Sig("safe-haven-flows", "global", 80, "high") >>

----------------------------------------------------------------------------
(* Properties of the adapters, checked under SpecAdapter *)

EmittedSignal ==
    adapterOutcome.status = "fulfilled" /\ adapterOutcome.value # None

\* the band of a stored score: normal below 35, elevated below 65, else high
BandOf(score) ==
    IF score < 35 THEN "normal" ELSE IF score < 65 THEN "elevated" ELSE "high"

\* C3: every Signal an adapter emits, on its normal path and on every
\* fallback path, has status equal to the band of its stored score.
C3_StatusIsBandOfScore ==
    EmittedSignal =>
        adapterOutcome.value[1].status = BandOf(adapterOutcome.value[1].score)

\* the adapter has run to the end of its body
AdapterReturned == adapterOutcome # Pending

CallFailed ==
    \/ adapterCall.upstream.kind \in FailureKinds
    \/ /\ adapterCall.upstream.kind = "no_answer"
       /\ HasTimeout(adapterCall.revision, adapterCall.op)

\* C14: when an adapter's upstream call fails, its outcome is no signal or a
\* signal of confidence low, never one of confidence medium or high.
C14_FailedCallLowConfidence ==
    (AdapterReturned /\ CallFailed /\ EmittedSignal) =>
        adapterOutcome.value[1].confidence = "low"

\* the response was well-formed but lacked a field the adapter reads
FieldMissing ==
    \/ adapterCall.upstream.kind = "missing_field"
    \/ /\ adapterCall.op = "fetchSafeHavenSignal"
       /\ adapterCall.upstream.kind = "ok"
       /\ None \in {adapterCall.upstream.chf, adapterCall.upstream.jpy}

\* C15: when a well-formed response lacks a field the adapter expects, the
\* adapter does not emit a signal of confidence medium or high computed from
\* substituted defaults.
C15_MissingFieldNotFabricated ==
    (AdapterReturned /\ FieldMissing /\ EmittedSignal) =>
        adapterOutcome.value[1].confidence = "low"

\* C16: every adapter failure appends one entry carrying the adapter's signal
\* id to the error log, whether the adapter then yields no signal or a
\* fallback signal, also for non-2xx and rate-limited responses.
C16_FailureIsLogged ==
    (AdapterReturned /\ CallFailed) =>
        /\ Len(errorLog) = 1
        /\ errorLog[1].signalId = SignalIdOf[adapterCall.op]

\* the class the taxonomy gives to the cause of a failed call
CauseClass(u) ==
    CASE u.kind = "malformed" -> "parsing"
      [] u.kind = "missing_field" -> "validation"
      [] u.kind = "no_answer" -> "timeout"
      [] u.kind \in {"network_error", "http_error", "rate_limited"} -> "network"
      [] OTHER -> "unknown"

\* the source returned no article, event, quake, outage, flight or market
EmptyMeasurement ==
    LET u == adapterCall.upstream
        op == adapterCall.op
    IN  /\ u.kind = "ok"
        /\ CASE op = "fetchWikipediaSignal" -> u.crisisArticles = 0
              [] op = "fetchGdeltSignal" -> u.articles = 0
              [] op = "fetchEarthquakeSignal" -> u.major = 0 /\ u.significant = 0
              [] op = "fetchNaturalEventsSignal" ->
                   u.wildfires = 0 /\ u.storms = 0 /\ u.volcanoes = 0
              [] op = "fetchFlightSignal" -> u.anomalies = 0
              [] op = "fetchPolymarketSignal" -> u.crisisMarkets = <<>>
              [] op = "fetchKalshiSignal" -> u.relevantMarkets = <<>>
              [] OTHER -> FALSE

\* C26: when a source's measurement is empty the adapter emits an explicit
\* positive baseline score: GDELT with zero articles 40, Wikipedia with zero
\* crisis articles 15, Polymarket and Kalshi with zero relevant markets 25.
C26_EmptyMeasurementBaseline ==
    (AdapterReturned /\ EmptyMeasurement) =>
        /\ EmittedSignal
        /\ adapterOutcome.value[1].score > 0
        /\ adapterCall.op = "fetchGdeltSignal" => adapterOutcome.value[1].score = 40
        /\ adapterCall.op = "fetchWikipediaSignal" =>
              adapterOutcome.value[1].score = 15
        /\ adapterCall.op \in {"fetchPolymarketSignal", "fetchKalshiSignal"} =>
              adapterOutcome.value[1].score = 25

\* the score of the signal the adapter of the call emits for a body
ScoreFor(u) ==
    RunAdapterOn(adapterCall.revision, adapterCall.op, u).value[1].score

\* the bodies with one more article, quake, event or anomaly than the body
\* of the call
OneMore ==
    LET u == adapterCall.upstream
        op == adapterCall.op
    IN  CASE op = "fetchWikipediaSignal" ->
               { [u EXCEPT !.crisisArticles = @ + 1] }
          [] op = "fetchEarthquakeSignal" ->
               { [u EXCEPT !.major = @ + 1], [u EXCEPT !.significant = @ + 1] }
          [] op = "fetchNaturalEventsSignal" ->
               { [u EXCEPT !.wildfires = @ + 1], [u EXCEPT !.storms = @ + 1],
                 [u EXCEPT !.volcanoes = @ + 1] }
          [] op = "fetchFlightSignal" -> { [u EXCEPT !.anomalies = @ + 1] }

\* the stated linear score of a body
StatedLinear ==
    LET u == adapterCall.upstream
        op == adapterCall.op
    IN  CASE op = "fetchWikipediaSignal" -> 12 * u.crisisArticles + 15
          [] op = "fetchEarthquakeSignal" -> 25 * u.major + 5 * u.significant + 10
          [] op = "fetchNaturalEventsSignal" ->
               4 * u.wildfires + 6 * u.storms + 8 * u.volcanoes + 15
          [] op = "fetchFlightSignal" -> 15 * u.anomalies + 20

CountBased ==
    /\ adapterCall.op \in {"fetchWikipediaSignal", "fetchEarthquakeSignal",
                            "fetchNaturalEventsSignal", "fetchFlightSignal"}
    /\ adapterCall.upstream.kind = "ok"

\* C27: the scores of the Wikipedia, earthquake, natural-events and flight
\* adapters are the stated linear functions of the counts, saturated at 100,
\* and never decrease when a count increases.
C27_CountScoresMonotoneClamped ==
    (AdapterReturned /\ CountBased) =>
        /\ EmittedSignal
        /\ adapterOutcome.value[1].score =
              IF StatedLinear > 100 THEN 100 ELSE StatedLinear
        /\ \A more \in OneMore : ScoreFor(more) >= adapterOutcome.value[1].score

\* eight crisis articles: 111 before the clamp, 100 after, and 100 with nine
C27_Witness ==
    /\ AdapterReturned
    /\ adapterCall.op = "fetchWikipediaSignal"
    /\ adapterCall.upstream.kind = "ok"
    /\ adapterCall.upstream.crisisArticles = 8
    /\ adapterOutcome.value[1].score = 100
    /\ \A more \in OneMore : ScoreFor(more) = 100

\* C25: each entry written to the error log is classified by its cause: a
\* malformed body as parsing, a well-formed response without a required
\* field as validation, an aborted call as timeout, a connection error or a
\* non-2xx status as network.
C25_ErrorClassifiedByCause ==
    AdapterReturned =>
        \A k \in 1..Len(errorLog) :
           errorLog[k].errorType = CauseClass(adapterCall.upstream)

----------------------------------------------------------------------------
(* Properties of the fetch orchestrator, checked under SpecFetch *)

\* the adapters whose promise fulfilled with a Signal
Survivors ==
    { i \in 1..Len(settled) :
        settled[i].status = "fulfilled" /\ settled[i].value # None }

Thrown == { i \in 1..Len(settled) : settled[i].status = "rejected" }

\* C1: fetchAllSignals isolates failures per adapter: whatever the adapters'
\* outcomes (signal, no signal, rejection) the returned batch holds exactly
\* the signals of the adapters that produced one, and fetchAllSignals itself
\* never rejects.
C1_FailureIsolation ==
    /\ batch.status # "rejected"
    /\ batch.status = "fulfilled" =>
          /\ Len(batch.value) = Cardinality(Survivors)
          /\ \A i \in Survivors :
                \E k \in 1..Len(batch.value) : batch.value[k] = settled[i].value[1]
          /\ \A k \in 1..Len(batch.value) :
                \E i \in Survivors : batch.value[k] = settled[i].value[1]

\* all adapters have settled, two of them by rejecting and two with no
\* signal: the batch is the three survivors
C1_Witness ==
    /\ batch.status = "fulfilled"
    /\ Cardinality(Thrown) = 2
    /\ Cardinality(Survivors) = 3
    /\ Len(batch.value) = 3

\* the place of the adapter that emits a signal id in the list fetchAllSignals
\* passes to Promise.allSettled
RegistrationIndex(id) ==
    CHOOSE i \in 1..Len(Adapters) : SignalIdOf[Adapters[i]] = id

\* C28: fetchAllSignals returns the signals in adapter registration order,
\* whatever order the adapter promises settled in: the k-th signal of the
\* batch is the one its adapter's promise fulfilled with, and signals of
\* earlier registered adapters come first.
C28_RegistrationOrder ==
    batch.status = "fulfilled" =>
        /\ \A k \in 1..Len(batch.value) :
              batch.value[k] = settled[RegistrationIndex(batch.value[k].id)].value[1]
        /\ \A j, k \in 1..Len(batch.value) :
              j < k => RegistrationIndex(batch.value[j].id)
                          < RegistrationIndex(batch.value[k].id)

\* the first and the fifth adapter yielded no signal: the batch is the
\* second, third, fourth, sixth and seventh, in that order
C28_Witness ==
    /\ batch.status = "fulfilled"
    /\ settled[1].status = "rejected"
    /\ settled[5].status = "fulfilled"
    /\ settled[5].value = None
    /\ Len(batch.value) = 5
    /\ batch.value[1].id = "safe-haven-flows"
    /\ batch.value[4].id = "internet-outages"
    /\ batch.value[5].id = "flight-anomalies"

----------------------------------------------------------------------------
(* Properties of useDashboard, checked under Spec *)

\* twice the weighted sum and twice the total weight of a signal list, by the
\* stated weights
StatedSums(sigs) ==
    LET n == Len(sigs)
    IN  << SumSeq([i \in 1..n |-> sigs[i].score * StatedWeight2[sigs[i].confidence]]),
           SumSeq([i \in 1..n |-> StatedWeight2[sigs[i].confidence]]) >>

\* C2: in every state of useDashboard, signals and globalRisk belong to the
\* same completed cycle: globalRisk.signalCount is signals.length,
\* globalRisk.score is the aggregate of exactly those signals, and the
\* published list is the initial empty one or the whole outcome of a cycle in
\* which every adapter has answered, also when a refresh overlaps a poll.
C2_ConsistentSnapshot ==
    /\ globalRisk.signalCount = Len(signals)
    /\ IF signals = <<>>
       THEN globalRisk.score = 0
       ELSE IsRoundOf(globalRisk.score, StatedSums(signals)[1],
                      StatedSums(signals)[2])
    /\ lastFetched = None => signals = <<>>
    /\ lastFetched # None =>
          \E outcome \in CycleBatches : signals = outcome.value

\* a cycle has published a partial-failure batch while a manual refresh,
\* started after it, is still awaiting its own
C2_Witness ==
    /\ inflight["refresh"] = 1
    /\ isLoading = FALSE
    /\ lastFetched # None
    /\ Len(signals) = Len(Adapters) - 1
    /\ globalRisk.signalCount = Len(signals)

\* the trend the aggregator's rule gives a score against a previous one
ExpectedTrend(sigs, score, previous) ==
    IF sigs = <<>> \/ previous = None THEN "stable"
    ELSE IF score > previous[1] + 3 THEN "up"
    ELSE IF score < previous[1] - 3 THEN "down"
    ELSE "stable"

\* a fetchData invocation has resumed and published: its try block ran to
\* the end (the catch block leaves an error message instead)
Publishes == Mounted /\ InflightCount' < InflightCount /\ error' = None

\* C9: the trend a cycle publishes is computed from that cycle's score and
\* the score of the GlobalRisk published immediately before it, the first
\* cycle has no previous score and publishes stable, and while the hook is
\* mounted the carried previous score equals the last published
\* globalRisk.score, for every interleaving of polls and refreshes.
C9_TrendFromLastPublished ==
    /\ [](Mounted => previousScoreRef = IF lastFetched = None THEN None
                                        ELSE Some(globalRisk.score))
    /\ [][Publishes =>
            globalRisk'.trend =
               ExpectedTrend(signals', globalRisk'.score,
                             IF lastFetched = None THEN None
                             ELSE Some(globalRisk.score))]_vars

\* a later cycle has published a falling trend while another invocation is
\* still in flight
C9_Witness ==
    /\ Mounted
    /\ globalRisk.trend = "down"
    /\ signals # <<>>
    /\ InflightCount > 0
    /\ previousScoreRef = Some(globalRisk.score)

----------------------------------------------------------------------------
(* Properties of the regional functions, checked under SpecAgg *)

\* the positions of the signals that belong to a region
RegionMatches(sigs, region) ==
    { i \in 1..Len(sigs) : sigs[i].region \in {region, "global"} }

\* the rounded unweighted mean of the scores at the given positions, 0 when
\* there is none
IsUnweightedMeanOver(value, sigs, positions) ==
    LET scores == [i \in 1..Len(sigs) |->
                     IF i \in positions THEN sigs[i].score ELSE 0]
    IN  IF positions = {}
        THEN value = 0
        ELSE IsRoundOf(value, SumSeq(scores), Cardinality(positions))

\* C11 as stated: calculateRegionalRisk(signals, R) is the rounded unweighted
\* mean of the scores of the signals whose region is R or global, whatever
\* their confidence, and 0 when no signal matches.
C11_RegionalRiskOfRegionOrGlobal ==
    ret.op = "calculateRegionalRisk" =>
        IsUnweightedMeanOver(ret.value, argSignals,
                             RegionMatches(argSignals, ret.region))

\* C11 amended: for a region R other than global, calculateRegionalRisk is
\* the rounded unweighted mean of the scores of the signals whose region is R
\* or global, and 0 when no signal matches; for R = global it is the rounded
\* unweighted mean of the scores of all signals, and 0 for the empty list.
C11_RegionalRiskUnweightedMean ==
    ret.op = "calculateRegionalRisk" =>
        IsUnweightedMeanOver(ret.value, argSignals,
                             IF ret.region = "global"
                             THEN 1..Len(argSignals)
                             ELSE RegionMatches(argSignals, ret.region))

\* a regional score over signals of different confidence where the weighted
\* mean would differ: 80/high and 20/low in Europe give 50, not 60
C11_Witness ==
    /\ ret.op = "calculateRegionalRisk"
    /\ ret.region = "europe"
    /\ argSignals = << Sig("safe-haven-flows", "global", 80, "high"),
                       Sig("internet-outages", "asia-pacific", 54, "medium"),
                       Sig("gdelt-news", "europe", 20, "low") >>
    /\ ret.value = 50

----------------------------------------------------------------------------
(* Properties of the error log, checked under SpecLog *)

\* the last k elements of a sequence
LastOf(seq, k) == SubSeq(seq, Len(seq) - k + 1, Len(seq))

\* C17: after any sequence of logSignalError and clearErrorLog calls the
\* error log holds at most 50 entries, and they are exactly the most recent
\* min(n, 50) of the n entries logged since the last clear: the 51st entry
\* evicts the oldest one.
C17_LogBoundedMostRecent ==
    LET n == Len(logHistory)
        kept == IF n < 50 THEN n ELSE 50
    IN  /\ Len(errorLog) <= 50
        /\ errorLog = LastOf(logHistory, kept)

\* the 51st entry since a clear has evicted the first
C17_Witness ==
    /\ clock > Len(logHistory)
    /\ Len(logHistory) = 51
    /\ Len(errorLog) = 50
    /\ errorLog[1] = logHistory[2]
    /\ errorLog[50] = logHistory[51]

\* an unmodified result of getRecentErrors
GotRecentErrors == ret.op = "getRecentErrors" /\ ~ret.mutated

\* C18: getRecentErrors lists failures most-recent-first: the entry logged
\* last comes first and the oldest retained entry comes last.
C18_MostRecentFirst ==
    (GotRecentErrors /\ Len(logHistory) >= 2) =>
        LET items == ret.items
        IN  /\ items[1] = logHistory[Len(logHistory)]
            /\ items[Len(items)] = errorLog[1]

\* a query has returned, or the caller has changed what a query returned
QueryStep == ret' # ret /\ ret' # NoCall

\* C19: the queries never change the retained entries, changing the array
\* getRecentErrors returned does not change the log, and getErrorCount(id)
\* and getSourceErrorCount(name) are the numbers of retained entries with
\* that signal id and that source name.
C19_QueriesReadOnly ==
    /\ [][QueryStep => errorLog' = errorLog]_vars
    /\ [](ret.op = "getErrorCount" =>
            ret.value = Cardinality({ i \in 1..Len(errorLog) :
                                        errorLog[i].signalId = ret.signalId }))
    /\ [](ret.op = "getSourceErrorCount" =>
            ret.value = Cardinality({ i \in 1..Len(errorLog) :
                                        errorLog[i].sourceName = ret.sourceName }))

\* the caller has shortened the array it was given and the log still holds
\* every entry
C19_Witness ==
    /\ ret.op = "getRecentErrors"
    /\ ret.mutated
    /\ Len(errorLog) = 3
    /\ Len(ret.items) = 2
    /\ errorLog = logHistory

----------------------------------------------------------------------------
(* Termination of a polling cycle, checked under SpecLive *)

\* C20: every polling cycle terminates: fetchAllSignals eventually resolves,
\* even when an upstream endpoint never answers.
C20_CycleTerminates == <>(batch # Pending)

----------------------------------------------------------------------------
(* Properties of the consumers of a cycle's signals, checked under SpecAgg *)

\* C22: calculateGlobalRisk, filterSignalsByRegion, calculateRegionalRisk,
\* the SignalFeed sort and the TopDrivers ranking leave the list they are
\* given, its order and the fields of every Signal in it unchanged.
C22_ConsumersDoNotMutate == [][argSignals' = argSignals]_vars

\* the feed shows the signals in another order than the list, which still
\* starts with a normal signal followed by a high one
C22_Witness ==
    /\ ret.op = "SignalFeed"
    /\ ret.view = "cards"
    /\ Len(argSignals) = 3
    /\ argSignals[1].status = "normal"
    /\ argSignals[2].status = "high"
    /\ ret.cards[1] = argSignals[2]
    /\ ret.cards # argSignals

----------------------------------------------------------------------------
(* The error log and the batch, checked under SpecLogged *)

\* the batch of a cycle as the upstream responses alone determine it
BatchOfResponses(cycle) ==
    fetchAllSignals([i \in 1..Len(Registered(cycle.revision)) |->
                        PromiseOf(cycle, Registered(cycle.revision)[i])])

\* C23: the batch fetchAllSignals returns, and with it the GlobalRisk
\* calculateGlobalRisk computes from that batch and the previous score, is
\* determined by the upstream responses: it is the same whatever the error
\* log contains at the start of the cycle.
C23_LogIsNoControlSurface ==
    /\ batch # Pending => batch = BatchOfResponses(adapterCall)
    /\ \A i \in 1..Len(settled) :
          settled[i] # Pending =>
             settled[i] = PromiseOf(adapterCall,
                                    Registered(adapterCall.revision)[i])

\* a cycle that started with a full log holding entries of gdelt-news has
\* returned the signal of fetchGdeltSignal, and the timeout it logged has
\* evicted the oldest entry
C23_Witness ==
    /\ batch # Pending
    /\ Len(errorLog) = MaxErrors
    /\ errorLog[MaxErrors].signalId = "natural-events"
    /\ \E k \in 1..(MaxErrors - 1) : errorLog[k].signalId = "gdelt-news"
    /\ \E k \in 1..Len(batch.value) : batch.value[k].id = "gdelt-news"

----------------------------------------------------------------------------
(* Signal ids in a batch, checked under SpecLive *)

----------------------------------------------------------------------------
(* The error path of useDashboard, checked under Spec *)

FetchError == Some("Failed to fetch signals. Check your connection.")

\* a cycle raises inside fetchData: the awaited promise rejects
CycleRaises == \E caller \in Callers : FetchDataResumes(caller, Rejected)

\* a cycle completes with batch b
CycleCompletes(b) == \E caller \in Callers : FetchDataResumes(caller, b)

\* C29: when a cycle raises inside fetchData, error is set and signals,
\* globalRisk, lastFetched and the carried previous score keep the values of
\* the last successful cycle; a cycle that completes, also with an empty
\* batch, publishes its snapshot and resets error to null.
C29_ErrorKeepsLastSnapshot ==
    [][ /\ CycleRaises =>
              /\ Mounted => error' = FetchError
              /\ signals' = signals
              /\ globalRisk' = globalRisk
              /\ lastFetched' = lastFetched
              /\ previousScoreRef' = previousScoreRef
        /\ \A b \in CycleBatches :
              (CycleCompletes(b) /\ Mounted) =>
                 /\ error' = None
                 /\ signals' = b.value
                 /\ globalRisk' = calculateGlobalRisk(b.value, previousScoreRef)
                 /\ lastFetched' # None
                 /\ previousScoreRef' = Some(globalRisk'.score) ]_vars

\* a cycle has raised after a successful one: the error is shown over the
\* signals of the successful cycle
C29_Witness ==
    /\ Mounted
    /\ error = FetchError
    /\ lastFetched # None
    /\ Len(signals) > 0
    /\ globalRisk.signalCount = Len(signals)
    /\ previousScoreRef = Some(globalRisk.score)
    /\ ~isLoading

----------------------------------------------------------------------------
(* The loading flag and the polling timer, checked under SpecSettling *)

\* C30: after the initial fetch, a timer poll or refresh() has started a
\* cycle, isLoading eventually becomes false once the cycle's adapters have
\* settled, on the success path and on the error path alike (the hook shows
\* loading only while a cycle is in flight, and a resuming cycle leaves it
\* false); after the cleanup of the polling effect has run, no further
\* timer-driven cycle is started.
C30_LoadingEndsTimerStops ==
    /\ []((Mounted /\ isLoading) => InflightCount > 0)
    /\ (Mounted /\ isLoading) ~> (~isLoading \/ ~Mounted)
    /\ [][\A caller \in Callers :
             (Mounted /\ inflight'[caller] < inflight[caller]) => ~isLoading']_vars
    /\ [][pollTimer = "cleared" =>
             /\ pollTimer' = "cleared"
             /\ inflight'["interval"] <= inflight["interval"]]_vars

\* a cycle has ended on the error path with the loading flag down, and the
\* cleanup has run with no invocation left suspended
C30_Witness ==
    /\ pollTimer = "cleared"
    /\ error = FetchError
    /\ ~isLoading
    /\ InflightCount = 0

====
